---------------------------- MODULE Spec2Model ----------------------------
(***************************************************************************)
(* A model of mara_google_sheet_downloader/columns_definition.py: the      *)
(* column-definition grammar (parse_column_definition), the cell           *)
(* definitions (CellDefinition and its subclasses) and the row formatter   *)
(* (write_rows_as_csv_to_stream), and of the fetch loop in front of it in  *)
(* __main__.py (gs_download_to_csv).                                       *)
(*                                                                         *)
(* Python strings are sequences of one-character strings.  An optional     *)
(* value is a sequence of length at most one: None is << >>, a present     *)
(* value v is <<v>>.                                                       *)
(***************************************************************************)
EXTENDS Integers, Sequences, FiniteSets, TLC

VARIABLES
    pc,                  \* position of the running function
    columns_definition,  \* the definition handed in, when it is a str
    prebuilt,            \* the definition handed in, when it is a list of instances
    delimiter_char,      \* the delimiter handed in
    cell_definitions,    \* the list of CellDefinition instances
    rows_pulled,         \* the rows the row iterator has handed out so far
    row,                 \* the row being processed
    cell_idx,            \* index of the next cell definition of the inner loop
    col_number,          \* cursor into relevant_cols
    buf,                 \* output buffer of the row being processed
    calls,               \* the cell(x) calls made for the row being processed
    stream,              \* the records written to the sink
    n_rows,              \* the written-row counter
    result,              \* what the function returned or raised
    value,               \* the argument of a single cell call
    tokens,              \* the tokens a definition was written from, if any
    ctor,                \* the constructor calls to make: [cls, unparsed_args, required, parsed_args]
    parsed,              \* the calls of parse_column_definition made by the run
    excel_delimiter,     \* csv.excel.delimiter, an attribute of the shared dialect class
    worksheet,           \* what worksheet.get_all_values() returned in this attempt
    skip_rows,           \* the number of leading rows to discard
    skipped,             \* the next(rows) calls made by the discarding loop
    api_errors,          \* the APIErrors retried so far
    overall_tries,       \* the other exceptions retried so far
    spreadsheet_key,     \* the spreadsheet key of a DownloadGoogleSpreadsheet command
    worksheet_name,      \* its worksheet name
    use_flask_command,   \* whether it invokes the downloader through flask
    config,              \* what the functions of the config module return
    earlier              \* the earlier runs with the same arguments: [stream, kind]

\* the arguments of the function modelled: a run never changes them
given == <<columns_definition, prebuilt, delimiter_char, value, tokens, ctor,
           spreadsheet_key, worksheet_name, use_flask_command, config, earlier>>

\* the state of the fetch loop of gs_download_to_csv
fetch == <<worksheet, skip_rows, skipped, api_errors, overall_tries>>

vars == <<pc, given, cell_definitions, rows_pulled, row, cell_idx, col_number, buf,
          calls, stream, n_rows, result, parsed, excel_delimiter, fetch>>

-----------------------------------------------------------------------------
(* Optional values *)

None == << >>

Some(v) == <<v>>

-----------------------------------------------------------------------------
(* Python str operations *)

Whitespace == {" ", "\t"}

DigitChars == <<"0", "1", "2", "3", "4", "5", "6", "7", "8", "9">>

IsDigit(c) == \E i \in 1..10 : DigitChars[i] = c

DigitVal(c) == (CHOOSE i \in 1..10 : DigitChars[i] = c) - 1

UpperChars ==
    <<"A", "B", "C", "D", "E", "F", "G", "H", "I", "J", "K", "L",
      "M", "N", "O", "P", "Q", "R", "S", "T", "U", "V", "W", "X", "Y", "Z">>

LowerChars ==
    <<"a", "b", "c", "d", "e", "f", "g", "h", "i", "j", "k", "l",
      "m", "n", "o", "p", "q", "r", "s", "t", "u", "v", "w", "x", "y", "z">>

\* str.lower on one (ASCII) character
LowerChar(c) ==
    IF \E i \in 1..26 : UpperChars[i] = c
    THEN LowerChars[CHOOSE i \in 1..26 : UpperChars[i] = c]
    ELSE c

StrLower(s) == [i \in 1..Len(s) |-> LowerChar(s[i])]

\* str.strip()
Strip(s) ==
    LET keep == {i \in 1..Len(s) : s[i] \notin Whitespace}
    IN  IF keep = {} THEN << >>
        ELSE SubSeq(s, CHOOSE i \in keep : \A j \in keep : i <= j,
                       CHOOSE i \in keep : \A j \in keep : j <= i)

\* ''.join(row)
RECURSIVE Join(_)
Join(fields) ==
    IF fields = << >> THEN << >> ELSE Head(fields) \o Join(Tail(fields))

\* str.find(ch, start) with 0-based positions; -1 when absent
Find(s, ch, start) ==
    LET hits == {i \in start..(Len(s) - 1) : s[i + 1] = ch}
    IN  IF hits = {} THEN -1 ELSE CHOOSE i \in hits : \A j \in hits : i <= j

\* s[lo:hi] with 0-based positions
Slice(s, lo, hi) == SubSeq(s, lo + 1, hi)

\* str.split(sep) for a one-character separator
RECURSIVE Split(_, _)
Split(s, sep) ==
    LET at == Find(s, sep, 0)
    IN  IF at = -1 THEN <<s>>
        ELSE <<Slice(s, 0, at)>> \o Split(Slice(s, at + 1, Len(s)), sep)

\* str.replace(old, new) for a one-character old and a new of length <= 1
RECURSIVE Replace(_, _, _)
Replace(s, old, new) ==
    IF s = << >> THEN << >>
    ELSE (IF Head(s) = old THEN new ELSE <<Head(s)>>) \o Replace(Tail(s), old, new)

-----------------------------------------------------------------------------
(* Numbers: a Python int or float is [neg, mag, scale], the decimal        *)
(* (-1)^neg * mag / 10^scale, normalised so that equal numbers are equal   *)
(* records (1 == 1.0 in Python).                                           *)

RECURSIVE Pow10(_)
Pow10(k) == IF k = 0 THEN 1 ELSE 10 * Pow10(k - 1)

RECURSIVE Normalise(_)
Normalise(n) ==
    IF n.scale > 0 /\ n.mag % 10 = 0
    THEN Normalise([n EXCEPT !.mag = n.mag \div 10, !.scale = n.scale - 1])
    ELSE n

Num(i) == [neg |-> i < 0, mag |-> IF i < 0 THEN -i ELSE i, scale |-> 0]

\* a < b on numbers
NumLess(a, b) ==
    LET sa == IF a.neg THEN -a.mag ELSE a.mag
        sb == IF b.neg THEN -b.mag ELSE b.mag
    IN  sa * Pow10(b.scale) < sb * Pow10(a.scale)

\* a <= b on numbers
NumLeq(a, b) ==
    LET sa == IF a.neg THEN -a.mag ELSE a.mag
        sb == IF b.neg THEN -b.mag ELSE b.mag
    IN  sa * Pow10(b.scale) <= sb * Pow10(a.scale)

RECURSIVE DigitsValue(_)
DigitsValue(s) ==
    IF s = << >> THEN 0
    ELSE 10 * DigitsValue(SubSeq(s, 1, Len(s) - 1)) + DigitVal(s[Len(s)])

RECURSIVE IntToStr(_)
IntToStr(n) ==
    IF n < 10 THEN <<DigitChars[n + 1]>>
    ELSE IntToStr(n \div 10) \o <<DigitChars[(n % 10) + 1]>>

RECURSIVE ZeroPad(_, _)
ZeroPad(s, width) == IF Len(s) >= width THEN s ELSE ZeroPad(<<"0">> \o s, width)

\* the decimal with integer digits ip and fraction digits fp, when both are
\* digits only and there is at least one digit
DecimalOf(ip, fp, neg) ==
    IF /\ \A i \in 1..Len(ip) : IsDigit(ip[i])
       /\ \A i \in 1..Len(fp) : IsDigit(fp[i])
       /\ Len(ip) + Len(fp) > 0
    THEN [ok |-> TRUE,
          val |-> Normalise([neg |-> neg, mag |-> DigitsValue(ip \o fp),
                             scale |-> Len(fp)])]
    ELSE [ok |-> FALSE, val |-> Num(0)]

\* an unsigned decimal literal, split at its first point (at dot, -1 if none)
ParseUnsigned(body, dot, neg) ==
    IF dot = -1 THEN DecimalOf(body, << >>, neg)
    ELSE DecimalOf(Slice(body, 0, dot), Slice(body, dot + 1, Len(body)), neg)

ParseSigned(t) ==
    IF t # << >> /\ t[1] \in {"-", "+"}
    THEN ParseUnsigned(Tail(t), Find(Tail(t), ".", 0), t[1] = "-")
    ELSE ParseUnsigned(t, Find(t, ".", 0), FALSE)

\* float(s) for a str s: surrounding whitespace is stripped, then an optional
\* sign and decimal digits with at most one point.  (Exponents, underscores,
\* 'inf' and 'nan' need characters that are in none of the model's alphabets.)
ParseFloat(s) == ParseSigned(Strip(s))

\* int(x) of a float x: truncation towards zero
Trunc(n) ==
    [neg |-> n.neg /\ n.mag \div Pow10(n.scale) > 0,
     mag |-> n.mag \div Pow10(n.scale),
     scale |-> 0]

IntOf(body, neg) ==
    IF body # << >> /\ \A i \in 1..Len(body) : IsDigit(body[i])
    THEN [ok |-> TRUE, val |-> IF neg THEN -DigitsValue(body) ELSE DigitsValue(body)]
    ELSE [ok |-> FALSE, val |-> 0]

IntSigned(t) ==
    IF t # << >> /\ t[1] \in {"-", "+"} THEN IntOf(Tail(t), t[1] = "-")
    ELSE IntOf(t, FALSE)

\* int(s) for a str s: stripped, optional sign, decimal digits only
ParseInt(s) == IntSigned(Strip(s))

\* str(i) of a Python int i
PyIntStr(i) == IF i < 0 THEN <<"-">> \o IntToStr(-i) ELSE IntToStr(i)

\* str(n) of a number: an int prints its digits, a float prints at least one
\* fractional digit ('1234.0') (repr's shortest form of a short decimal)
NumStr(n, isInt) ==
    LET sign == IF n.neg THEN <<"-">> ELSE << >>
        ip   == IntToStr(n.mag \div Pow10(n.scale))
        fp   == IF n.scale = 0 THEN <<"0">>
                ELSE ZeroPad(IntToStr(n.mag % Pow10(n.scale)), n.scale)
    IN  IF isInt THEN sign \o ip ELSE sign \o ip \o <<".">> \o fp

-----------------------------------------------------------------------------
(* The argument names of the cell definitions, as Python strings *)

S_lower == <<"l", "o", "w", "e", "r">>

S_upper == <<"u", "p", "p", "e", "r">>

S_thousands_separator == <<"t", "h", "o", "u", "s", "a", "n", "d", "s", "_", "s", "e", "p", "a", "r", "a", "t", "o", "r">>

S_ignore_non_numeric == <<"i", "g", "n", "o", "r", "e", "_", "n", "o", "n", "_", "n", "u", "m", "e", "r", "i", "c">>

S_true == <<"t", "r", "u", "e">>

S_false == <<"f", "a", "l", "s", "e">>

S_in_fmt == <<"i", "n", "_", "f", "m", "t">>

S_out_fmt == <<"o", "u", "t", "_", "f", "m", "t">>

S_value == <<"v", "a", "l", "u", "e">>

S_start == <<"s", "t", "a", "r", "t">>

S_t == <<"t">>

S_f == <<"f">>

S_1 == <<"1">>

S_0 == <<"0">>

S_comma == <<",">>

S_dot == <<".">>

DefaultDateFormat == <<"%", "Y", "-", "%", "m", "-", "%", "d">>

-----------------------------------------------------------------------------
(* Exceptions, by the message that identifies them *)

E_Required == "ValueError: Value required, but was empty after validation and formatting"

E_NotParseable == "ValueError: Not parseable as number"

E_Range == "ValueError: value out of range"

E_Bool == "ValueError: invalid literal for boolean"

E_DateType == "TypeError: strptime() argument must be str, not None"

E_DateFormat == "ValueError: time data does not match format"

E_AddOn == "ValueError: Add-on columns cannot be used with a cell value"

E_Counter == "ValueError: Counter column cannot be used with a value"

E_SkipColumn == "_SkipColumn"

E_Index == "IndexError: list index out of range"

E_NotAnArgument == "ValueError: Not a possible argument"

E_InvalidArgument == "ValueError: Invalid value for argument"

E_Unpack == "ValueError: not enough or too many values to unpack (expected 2)"

E_UnknownCell == "RuntimeError: Can't find a cell definition"

E_NoClosingBracket == "RuntimeError: Bad column definition: found '(' but no following ')'"

E_BadRow == "ValueError: Row contains bad data"

\* gspread.exceptions.APIError whose response has the status code 404
E_APINotFound == "APIError: 404"

\* gspread.exceptions.APIError with another status code
E_API == "APIError"

\* an exception that is no APIError, raised while the worksheet is fetched
E_Connection == "Exception"

E_HeaderRows == "ValueError: Expected header rows, but not all were there"

E_NoData == "ValueError: Received no data rows, failing"

-----------------------------------------------------------------------------
(* CellDefinition and its subclasses.  An instance is a record of its      *)
(* class, its attributes (None when the instance has no such attribute of  *)
(* its own) and, for a counter, its running count.                         *)

\* _CELLS
_CELLS ==
    [c \in {"s", "f", "i", "b", "d", "&", "x", "c"} |->
        CASE c = "s" -> "str_"
          [] c = "f" -> "float_"
          [] c = "i" -> "int_"
          [] c = "b" -> "bool_"
          [] c = "d" -> "date_"
          [] c = "&" -> "add_on_"
          [] c = "x" -> "dont_include_"
          [] c = "c" -> "counter_"]

\* isinstance(cell, add_on_): counter_ is a subclass of add_on_
IsAddOn(cell) == cell.cls \in {"add_on_", "counter_"}

IsNumeric(cls) == cls \in {"int_", "float_"}

\* the class attribute _arguments
_arguments(cls) ==
    CASE IsNumeric(cls) ->
            {S_lower, S_upper, S_thousands_separator, S_ignore_non_numeric}
      [] cls = "bool_" -> {S_true, S_false}
      [] cls = "date_" -> {S_in_fmt, S_out_fmt}
      [] cls = "add_on_" -> {S_value}
      [] cls = "counter_" -> {S_start}
      [] OTHER -> {}

\* bool_.init_defaults: the built-in table
BuiltinBoolTable ==
    LET T == {<<"t", "r", "u", "e">>, S_t, S_1}
        F == {<<"f", "a", "l", "s", "e">>, S_f, S_0}
    IN  [k \in T \cup F |-> k \in T]

\* __init__ up to and including init_defaults
init_defaults(cls, required) ==
    [cls |-> cls,
     required |-> required,
     lower |-> None,
     upper |-> None,
     thousands_separator |-> None,
     ignore_non_numeric |-> None,
     true |-> None,
     false |-> None,
     _valid_str_values |-> IF cls = "bool_" THEN BuiltinBoolTable ELSE << >>,
     in_fmt |-> None,
     out_fmt |-> None,
     in_format |-> IF cls = "date_" THEN Some(DefaultDateFormat) ELSE None,
     out_format |-> IF cls = "date_" THEN Some(DefaultDateFormat) ELSE None,
     value |-> IF cls = "add_on_" THEN Some(<< >>) ELSE None,
     start |-> IF cls = "counter_" THEN Some(0) ELSE None,
     current_count |-> 0]

\* int(...) around float(input) in int_.converter
ConvertParsed(cls, f) ==
    IF f.ok /\ cls = "int_" THEN [ok |-> TRUE, val |-> Trunc(f.val)] ELSE f

\* int_.converter / float_.converter applied to a str: [ok, val]
converter(cls, input) == ConvertParsed(cls, ParseFloat(input))

\* validate_argument for a str value: [ok, val]; ~ok when it raises
validate_argument(cls, name, val) ==
    CASE IsNumeric(cls) /\ name = S_ignore_non_numeric ->
            [ok |-> TRUE,
             val |-> StrLower(val) \in {S_t, <<"t", "r", "u", "e">>, S_1}]
      [] IsNumeric(cls) /\ name = S_thousands_separator ->
            [ok |-> TRUE, val |-> IF val = S_dot THEN S_dot ELSE S_comma]
      [] IsNumeric(cls) /\ name \notin {S_ignore_non_numeric, S_thousands_separator} ->
            converter(cls, val)
      [] cls = "counter_" -> ParseInt(val)
      [] OTHER -> [ok |-> TRUE, val |-> val]

\* setattr(self, name, value)
setattr(cell, name, val) ==
    CASE name = S_lower -> [cell EXCEPT !.lower = Some(val)]
      [] name = S_upper -> [cell EXCEPT !.upper = Some(val)]
      [] name = S_thousands_separator -> [cell EXCEPT !.thousands_separator = Some(val)]
      [] name = S_ignore_non_numeric -> [cell EXCEPT !.ignore_non_numeric = Some(val)]
      [] name = S_true -> [cell EXCEPT !.true = Some(val)]
      [] name = S_false -> [cell EXCEPT !.false = Some(val)]
      [] name = S_in_fmt -> [cell EXCEPT !.in_fmt = Some(val)]
      [] name = S_out_fmt -> [cell EXCEPT !.out_fmt = Some(val)]
      [] name = S_value -> [cell EXCEPT !.value = Some(val)]
      [] name = S_start -> [cell EXCEPT !.start = Some(val)]

\* the end of _validate_and_set_argument, v the outcome of validate_argument
SetValidated(cell, name, v) ==
    IF ~v.ok THEN [exc |-> E_InvalidArgument, cell |-> cell]
    ELSE [exc |-> "", cell |-> setattr(cell, name, v.val)]

\* a variant that sets an argument whatever its name
_set_argument_of_any_name(cell, name, val) ==
    SetValidated(cell, name, validate_argument(cell.cls, name, val))

\* _validate_and_set_argument: [exc, cell]; exc = "" when it returns
_validate_and_set_argument(cell, name, val) ==
    IF name \notin _arguments(cell.cls)
    THEN [exc |-> E_NotAnArgument, cell |-> cell]
    ELSE SetValidated(cell, name, validate_argument(cell.cls, name, val))

\* validate_argument for a value of parsed_args, which is [t, s, i, b]: a
\* str s, an int i or a bool b.  (Values that are no str are given for the
\* arguments of the numeric classes and of counter_ only.)
validate_parsed_argument(cls, name, tv) ==
    CASE tv.t = "str" -> validate_argument(cls, name, tv.s)
      [] tv.t # "str" /\ IsNumeric(cls) /\ name = S_ignore_non_numeric ->
            \* isinstance(value, bool), else value.lower() raises AttributeError
            [ok |-> tv.t = "bool", val |-> tv.b]
      [] tv.t # "str" /\ IsNumeric(cls) /\ name = S_thousands_separator ->
            [ok |-> TRUE, val |-> S_comma]
      [] tv.t = "int" /\ IsNumeric(cls)
            /\ name \notin {S_ignore_non_numeric, S_thousands_separator} ->
            [ok |-> TRUE, val |-> Num(tv.i)]
      [] tv.t = "bool" /\ IsNumeric(cls)
            /\ name \notin {S_ignore_non_numeric, S_thousands_separator} ->
            [ok |-> TRUE, val |-> Num(IF tv.b THEN 1 ELSE 0)]
      [] tv.t = "int" /\ cls = "counter_" -> [ok |-> TRUE, val |-> tv.i]
      [] tv.t = "bool" /\ cls = "counter_" ->
            [ok |-> TRUE, val |-> IF tv.b THEN 1 ELSE 0]

\* _validate_and_set_argument for a value of parsed_args
_validate_and_set_parsed(cell, name, tv) ==
    IF name \notin _arguments(cell.cls)
    THEN [exc |-> E_NotAnArgument, cell |-> cell]
    ELSE SetValidated(cell, name, validate_parsed_argument(cell.cls, name, tv))

\* the loop of _parse_arguments over arguments.split(','); nv is
\* arg.split('=') of the first of args
RECURSIVE _parse_each(_, _)
_parse_next(r, rest) == IF r.exc # "" THEN r ELSE _parse_each(r.cell, rest)

_parse_arg(cell, nv, rest) ==
    IF Len(nv) # 2 THEN [exc |-> E_Unpack, cell |-> cell]
    ELSE _parse_next(_validate_and_set_argument(cell, nv[1], nv[2]), rest)

_parse_each(cell, args) ==
    IF args = << >> THEN [exc |-> "", cell |-> cell]
    ELSE _parse_arg(cell, Split(Head(args), "="), Tail(args))

\* _parse_arguments(arguments): arguments is None or a str
_parse_arguments(cell, arguments) ==
    IF arguments = None \/ arguments = Some(<< >>)
    THEN [exc |-> "", cell |-> cell]
    ELSE _parse_each(cell, Split(arguments[1], ","))

\* dict assignment d[k] = b
SetKey(d, k, b) == [x \in DOMAIN d \cup {k} |-> IF x = k THEN b ELSE d[x]]

\* 'if getattr(self, name, None): self._valid_str_values[....lower()] = b'
AddLiteral(d, attr, b) ==
    IF attr # None /\ attr # Some(<< >>) THEN SetKey(d, StrLower(attr[1]), b) ELSE d

\* finalize_arguments
finalize_arguments(cell) ==
    CASE cell.cls = "bool_" ->
            [cell EXCEPT !._valid_str_values =
                AddLiteral(AddLiteral(cell._valid_str_values, cell.true, TRUE),
                           cell.false, FALSE)]
      [] cell.cls = "counter_" -> [cell EXCEPT !.current_count = cell.start[1]]
      [] OTHER -> cell

Finalized(r) ==
    IF r.exc # "" THEN r ELSE [exc |-> "", cell |-> finalize_arguments(r.cell)]

\* CellDefinition.__init__(unparsed_args, required): [exc, cell]
CellInit(cls, unparsed_args, required) ==
    Finalized(_parse_arguments(init_defaults(cls, required), unparsed_args))


\* lines 48-49: 'for name, value in parsed_args.items()', parsed_args a
\* sequence of [name, value] in the order of the keywords; r is [exc, cell]
RECURSIVE _set_parsed_args(_, _)
_set_parsed_args(r, parsed_args) ==
    IF r.exc # "" \/ parsed_args = << >> THEN r
    ELSE _set_parsed_args(_validate_and_set_parsed(r.cell, Head(parsed_args).name,
                                                   Head(parsed_args).value),
                          Tail(parsed_args))

\* CellDefinition.__init__(unparsed_args, required, **parsed_args): [exc, cell]
__init__(cls, unparsed_args, required, parsed_args) ==
    Finalized(_set_parsed_args(_parse_arguments(init_defaults(cls, required),
                                                unparsed_args),
                               parsed_args))

\* getattr(self, name, None) for the name of an argument
getattr(cell, name) ==
    CASE name = S_lower -> cell.lower
      [] name = S_upper -> cell.upper
      [] name = S_thousands_separator -> cell.thousands_separator
      [] name = S_ignore_non_numeric -> cell.ignore_non_numeric
      [] name = S_true -> cell.true
      [] name = S_false -> cell.false
      [] name = S_in_fmt -> cell.in_fmt
      [] name = S_out_fmt -> cell.out_fmt
      [] name = S_value -> cell.value
      [] name = S_start -> cell.start

\* a variant that compares the class and the arguments only
EqualButForRequired(self, other) ==
    /\ self.cls = other.cls
    /\ \A name \in _arguments(self.cls) : getattr(self, name) = getattr(other, name)

\* CellDefinition.__eq__: '__class__', 'required' and the _arguments of self
__eq__(self, other) ==
    /\ self.cls = other.cls
    /\ self.required = other.required
    /\ \A name \in _arguments(self.cls) : getattr(self, name) = getattr(other, name)
-----------------------------------------------------------------------------
(* time.strptime / time.strftime for the format '%Y-%m-%d' *)

DaysInMonth(y, m) ==
    CASE m \in {4, 6, 9, 11} -> 30
      [] m = 2 -> IF (y % 4 = 0 /\ y % 100 # 0) \/ y % 400 = 0 THEN 29 ELSE 28
      [] OTHER -> 31

AllDigits(s) == \A i \in 1..Len(s) : IsDigit(s[i])

ValidDate(y, m, d) ==
    IF y >= 1 /\ m \in 1..12 /\ d \in 1..DaysInMonth(y, m)
    THEN [ok |-> TRUE, y |-> y, m |-> m, d |-> d]
    ELSE [ok |-> FALSE, y |-> 0, m |-> 0, d |-> 0]

\* the three parts of a '%Y-%m-%d' date: %Y is four digits, %m one or two
MatchDate(ypart, mpart, dpart) ==
    IF /\ Len(ypart) = 4 /\ AllDigits(ypart)
       /\ Len(mpart) \in 1..2 /\ AllDigits(mpart)
       /\ Len(dpart) \in 1..2 /\ AllDigits(dpart)
    THEN ValidDate(DigitsValue(ypart), DigitsValue(mpart), DigitsValue(dpart))
    ELSE [ok |-> FALSE, y |-> 0, m |-> 0, d |-> 0]

\* %d is one or two digits, or a space and a digit
MatchParts(parts) ==
    IF Len(parts) # 3 THEN [ok |-> FALSE, y |-> 0, m |-> 0, d |-> 0]
    ELSE IF Len(parts[3]) = 2 /\ parts[3][1] = " "
    THEN MatchDate(parts[1], parts[2], Tail(parts[3]))
    ELSE MatchDate(parts[1], parts[2], parts[3])

\* strptime(value, fmt) for fmt = '%Y-%m-%d': '-' is literal and the whole of
\* value must match
strptime(val, fmt) ==
    IF fmt = DefaultDateFormat THEN MatchParts(Split(val, "-"))
    ELSE [ok |-> FALSE, y |-> 0, m |-> 0, d |-> 0]

\* strftime(fmt, t) for fmt = '%Y-%m-%d'
strftime(fmt, t) ==
    ZeroPad(IntToStr(t.y), 4) \o <<"-">> \o ZeroPad(IntToStr(t.m), 2)
        \o <<"-">> \o ZeroPad(IntToStr(t.d), 2)

-----------------------------------------------------------------------------
(* Validation and formatting of one value.  A call yields [exc, ret, cell]: *)
(* the exception raised ("" when it returns), the str returned, and the     *)
(* instance after the call.                                                 *)

Returns(cell, s) == [exc |-> "", ret |-> s, cell |-> cell]

Raises(cell, e) == [exc |-> e, ret |-> << >>, cell |-> cell]

\* _NUMERIC_REMOVE_NON_NUMERIC_CHARS.sub('', input)
RemoveNonNumeric(input) ==
    SelectSeq(input, LAMBDA c : IsDigit(c) \/ c \in {",", "."})

\* str_.validate_and_format_value
str_validate_and_format_value(cell, input) ==
    Returns(cell, Strip(IF input = None THEN << >> ELSE input[1]))

\* a variant that leaves a ',' that is no thousands separator in the text
NumericTextKeepingComma(cell, input) ==
    Replace(IF cell.ignore_non_numeric = Some(TRUE)
            THEN RemoveNonNumeric(input) ELSE input,
            IF cell.thousands_separator = None THEN ","
            ELSE cell.thousands_separator[1][1],
            << >>)

\* the text NumericCellDefinition.validate_and_format_value hands to converter
NumericText(cell, input) ==
    Replace(Replace(IF cell.ignore_non_numeric = Some(TRUE)
                    THEN RemoveNonNumeric(input) ELSE input,
                    IF cell.thousands_separator = None THEN ","
                    ELSE cell.thousands_separator[1][1],
                    << >>),
            ",", <<".">>)

\* the range check and str(val), c the outcome of converter
CheckRange(cell, c) ==
    IF ~c.ok THEN Raises(cell, E_NotParseable)
    ELSE IF cell.lower # None /\ ~NumLeq(cell.lower[1], c.val)
    THEN Raises(cell, E_Range)
    ELSE IF cell.upper # None /\ ~NumLeq(c.val, cell.upper[1])
    THEN Raises(cell, E_Range)
    ELSE Returns(cell, NumStr(c.val, cell.cls = "int_"))

\* NumericCellDefinition.validate_and_format_value
Numeric_validate_and_format_value(cell, input) ==
    IF input = None THEN Returns(cell, << >>)
    ELSE CheckRange(cell, converter(cell.cls, NumericText(cell, input[1])))

BoolLookup(cell, lower_value) ==
    IF lower_value \in DOMAIN cell._valid_str_values
    THEN Returns(cell, IF cell._valid_str_values[lower_value]
                       THEN <<"T", "r", "u", "e">> ELSE <<"F", "a", "l", "s", "e">>)
    ELSE Raises(cell, E_Bool)

\* a variant that looks the value up as it is written
bool_case_sensitive(cell, val) ==
    IF val = None THEN Raises(cell, E_Bool) ELSE BoolLookup(cell, val[1])

\* bool_.validate_and_format_value (the value is a str or None)
bool_validate_and_format_value(cell, val) ==
    IF val = None THEN Raises(cell, E_Bool) ELSE BoolLookup(cell, StrLower(val[1]))

Reformat(cell, t) ==
    IF t.ok THEN Returns(cell, strftime(cell.out_format[1], t))
    ELSE Raises(cell, E_DateFormat)

\* date_.validate_and_format_value
date_validate_and_format_value(cell, val) ==
    IF val = None THEN Raises(cell, E_DateType)
    ELSE Reformat(cell, strptime(val[1], cell.in_format[1]))

\* a variant that accepts a value and returns the constant all the same
add_on_ignoring_value(cell, val) == Returns(cell, cell.value[1])

\* add_on_.validate_and_format_value
add_on_validate_and_format_value(cell, val) ==
    IF val # None THEN Raises(cell, E_AddOn) ELSE Returns(cell, cell.value[1])

Counted(c) == Returns(c, PyIntStr(c.current_count))

\* a variant that returns the count without stepping it
counter_without_step(cell, val) ==
    IF val # None THEN Raises(cell, E_Counter) ELSE Counted(cell)

\* counter_.validate_and_format_value
counter_validate_and_format_value(cell, val) ==
    IF val # None THEN Raises(cell, E_Counter)
    ELSE Counted([cell EXCEPT !.current_count = cell.current_count + 1])

\* self.validate_and_format_value(value), dispatched on the class
validate_and_format_value(cell, val) ==
    CASE cell.cls = "str_" -> str_validate_and_format_value(cell, val)
      [] IsNumeric(cell.cls) -> Numeric_validate_and_format_value(cell, val)
      [] cell.cls = "bool_" -> bool_validate_and_format_value(cell, val)
      [] cell.cls = "date_" -> date_validate_and_format_value(cell, val)
      [] cell.cls = "add_on_" -> add_on_validate_and_format_value(cell, val)
      [] cell.cls = "counter_" -> counter_validate_and_format_value(cell, val)
      [] cell.cls = "dont_include_" -> Raises(cell, E_SkipColumn)

\* isinstance(value, str) and value.strip() == ''
IsBlank(val) == val # None /\ Strip(val[1]) = << >>

\* a variant that formats whitespace like every other value
FormattedUnconditionally(cell, val) == validate_and_format_value(cell, val)

\* the first statement of CellDefinition.__call__: the formatted value ret
FormattedValue(cell, val) ==
    IF IsBlank(val) THEN Returns(cell, << >>)
    ELSE validate_and_format_value(cell, val)

\* a variant without the required check
NoRequiredCheck(r) == r

\* the required check that ends CellDefinition.__call__
RequiredCheck(r) ==
    IF r.exc = "" /\ r.ret = << >> /\ r.cell.required
    THEN Raises(r.cell, E_Required)
    ELSE r

\* cell(value): CellDefinition.__call__, overridden by dont_include_
Call(cell, val) ==
    IF cell.cls = "dont_include_" THEN Raises(cell, E_SkipColumn)
    ELSE RequiredCheck(FormattedValue(cell, val))

-----------------------------------------------------------------------------
(* parse_column_definition.  The result is [exc, cells, char, pos]: the     *)
(* exception raised ("" when it returns), the list returned, and for a      *)
(* RuntimeError the character and the position its message names.           *)

ParseReturns(res) == [exc |-> "", cells |-> res, char |-> "", pos |-> 0]

ParseRaises(e, ch, at) == [exc |-> e, cells |-> << >>, char |-> ch, pos |-> at]

\* 'col < len(definition) and definition[col] == ch', col 0-based
Peek(definition, col, ch) == col < Len(definition) /\ definition[col + 1] = ch

RECURSIVE ParseLoop(_, _, _)

\* lines 392-393: the instance is appended, or its constructor raised
ParseAppend(definition, col, res, cell_instance) ==
    IF cell_instance.exc # "" THEN ParseRaises(cell_instance.exc, "", 0)
    ELSE ParseLoop(definition, col, Append(res, cell_instance.cell))

\* a variant that swallows the '!' and leaves the cell optional
ParseNeverRequired(definition, col, res, cell, args) ==
    ParseAppend(definition, IF Peek(definition, col, "!") THEN col + 1 ELSE col, res,
                CellInit(cell, args, FALSE))

\* lines 387-392: a '!' at col is swallowed and makes the cell required
ParseRequired(definition, col, res, cell, args) ==
    ParseAppend(definition, IF Peek(definition, col, "!") THEN col + 1 ELSE col, res,
                CellInit(cell, args, Peek(definition, col, "!")))

\* a variant that reports the 0-based position of the '('
ParseBracketZeroBased(definition, col, res, cell, right) ==
    IF right = -1 THEN ParseRaises(E_NoClosingBracket, "(", col)
    ELSE ParseRequired(definition, right + 1, res, cell,
                       Some(Slice(definition, col + 1, right)))

\* lines 380-386: the '(' is at col, right is definition.find(')', col + 1)
ParseBracket(definition, col, res, cell, right) ==
    IF right = -1 THEN ParseRaises(E_NoClosingBracket, "(", col + 1)
    ELSE ParseRequired(definition, right + 1, res, cell,
                       Some(Slice(definition, col + 1, right)))

\* lines 373-378: col is past the kind character
ParseModifiers(definition, col, res, cell) ==
    IF Peek(definition, col, "(")
    THEN ParseBracket(definition, col, res, cell, Find(definition, ")", col + 1))
    ELSE ParseRequired(definition, col, res, cell, None)

\* the while loop of parse_column_definition, from position col (0-based) with
\* the cells res built so far
ParseLoop(definition, col, res) ==
    IF col >= Len(definition) THEN ParseReturns(res)
    ELSE IF definition[col + 1] \notin DOMAIN _CELLS
    THEN ParseRaises(E_UnknownCell, definition[col + 1], col + 1)
    ELSE ParseModifiers(definition, col + 1, res, _CELLS[definition[col + 1]])

parse_column_definition(definition) == ParseLoop(definition, 0, << >>)

-----------------------------------------------------------------------------
(* write_rows_as_csv_to_stream                                              *)

\* rows pulled from the row source in one run
MaxRows == 3

\* the column definitions the runs are started with
RunDefinitions ==
    {<< >>,
     <<"s">>,
     <<"s", "!">>,
     <<"s", "c">>,
     <<"c", "s">>,
     <<"x", "s">>,
     <<"s", "x", "!">>,
     <<"c", "s", "c">>,
     <<"x", "c", "s">>,
     <<"c", "(", "s", "t", "a", "r", "t", "=", "5", ")", "s">>,
     <<"&", "(", "v", "a", "l", "u", "e", "=", "Z", ")", "s">>,
     <<"&", "s">>,
     <<"i">>,
     <<"f", "f", "f">>,
     <<"b", "s">>,
     <<"i", "(", "l", "o", "w", "e", "r", "=", "2", ")", "!", "c">>,
     <<"s", "(">>,
     <<"z", "s">>,
     <<"s", "(", "a", "=", "1", ")">>}

\* the rows the row source may deliver
RowSamples ==
    {<< >>,
     <<<< >>>>,
     <<<< >>, << >>>>,
     <<<<" ">>>>,
     <<<<"a">>>>,
     <<<<"1">>, <<"a">>>>,
     <<<< >>, <<"b">>>>,
     <<<<"3">>, <<"t">>, <<"x">>>>,
     <<<<"1", ".", "0">>, <<"2", ",", "0">>, <<"3", ".", "0">>>>}

\* lists of CellDefinition instances handed in instead of a str: built
\* directly, and one whose counter has been used before
PrebuiltDefinitions ==
    {<< >>,
     <<CellInit("str_", None, FALSE).cell, CellInit("counter_", None, FALSE).cell>>,
     <<[CellInit("counter_", Some(<<"s", "t", "a", "r", "t", "=", "5">>), FALSE).cell EXCEPT !.current_count = 7],
       CellInit("int_", Some(<<"l", "o", "w", "e", "r", "=", "2">>), TRUE).cell>>,
     <<CellInit("dont_include_", None, FALSE).cell,
       CellInit("add_on_", Some(<<"v", "a", "l", "u", "e", "=", "Z">>), FALSE).cell,
       CellInit("bool_", None, FALSE).cell>>}

\* the values of delimiter_char: the default and another one
Delimiters == {"\t", ";"}

\* no fetch loop runs in front of the function
NoFetch ==
    /\ worksheet = << >>
    /\ skip_rows = 0
    /\ skipped = 0
    /\ api_errors = 0
    /\ overall_tries = 0

\* the config module as it is: every function returns None
NoConfig ==
    [gs_service_account_private_key_id |-> None,
     gs_service_account_private_key |-> None,
     gs_service_account_client_email |-> None,
     gs_service_account_client_id |-> None,
     gs_user_account_client_id |-> None,
     gs_user_account_client_secret |-> None,
     gs_user_account_refresh_token |-> None]

\* no DownloadGoogleSpreadsheet command is involved
NoShell ==
    /\ spreadsheet_key = << >>
    /\ worksheet_name = << >>
    /\ use_flask_command = FALSE
    /\ config = NoConfig

NoResult ==
    [kind |-> "none", n |-> 0, exc |-> "", cause |-> "", row |-> << >>,
     char |-> "", pos |-> 0, ret |-> << >>, msg |-> << >>]

Init ==
    /\ pc = "start"
    /\ \/ columns_definition \in RunDefinitions /\ prebuilt = None
       \/ columns_definition = << >> /\ prebuilt \in {Some(d) : d \in PrebuiltDefinitions}
    /\ delimiter_char \in Delimiters
    /\ excel_delimiter = ","
    /\ parsed = 0
    /\ NoFetch
    /\ NoShell
    /\ earlier = << >>
    /\ ctor = << >>
    /\ cell_definitions = << >>
    /\ rows_pulled = << >>
    /\ row = << >>
    /\ cell_idx = 0
    /\ col_number = 0
    /\ buf = << >>
    /\ calls = << >>
    /\ stream = << >>
    /\ n_rows = 0
    /\ result = NoResult
    /\ value = None
    /\ tokens = None

\* cell_definitions_for_existing_columns / number_of_columns_to_look_at
number_of_columns_to_look_at(cells) ==
    Cardinality({i \in 1..Len(cells) : ~IsAddOn(cells[i])})

\* row[:number_of_columns_to_look_at]
relevant_cols(cells, r) ==
    SubSeq(r, 1, IF Len(r) < number_of_columns_to_look_at(cells)
                 THEN Len(r) ELSE number_of_columns_to_look_at(cells))

\* a variant that takes every row with a field for a row with content
RowHasFields(r) == Len(r) > 0

\* 'if len(''.join(row)) > 0'
RowHasContent(r) == Len(Join(r)) > 0

\* lines 421-431, from the cell definitions to the start of the loop:
\* 'dialect = csv.excel; dialect.delimiter = delimiter_char' assigns to an
\* attribute of the class csv.excel itself
BeforeLoop(cells) ==
    /\ cell_definitions' = cells
    /\ excel_delimiter' = delimiter_char
    /\ pc' = "next_row"
    /\ result' = result

\* a variant that goes on without cell definitions when the parse raised
ParsedLeniently(p) == BeforeLoop(p.cells)

\* what the run does with the outcome p of parse_column_definition
Parsed(p) ==
    IF p.exc = ""
    THEN BeforeLoop(p.cells)
    ELSE /\ cell_definitions' = cell_definitions
         /\ excel_delimiter' = excel_delimiter
         /\ pc' = "raised"
         /\ result' = [NoResult EXCEPT !.kind = "raise", !.exc = p.exc,
                                       !.char = p.char, !.pos = p.pos]

\* lines 416-417: the definition, a str, is parsed before the loop starts
ParseDefinition ==
    /\ pc = "start"
    /\ prebuilt = None
    /\ parsed' = parsed + 1
    /\ Parsed(parse_column_definition(columns_definition))
    /\ UNCHANGED <<rows_pulled, row, cell_idx, col_number, buf, calls,
                   stream, n_rows, given, fetch>>

\* lines 418-419: a definition that is no str is the list of cell definitions
UseAsIs ==
    /\ pc = "start"
    /\ prebuilt # None
    /\ BeforeLoop(prebuilt[1])
    /\ UNCHANGED <<rows_pulled, row, cell_idx, col_number, buf, calls,
                   stream, n_rows, given, parsed, fetch>>

\* 'for row in rows' hands out a row without content: nothing is done with it
SkipRow(r) ==
    /\ pc = "next_row"
    /\ Len(rows_pulled) < MaxRows
    /\ ~RowHasContent(r)
    /\ rows_pulled' = Append(rows_pulled, r)
    /\ row' = r
    /\ calls' = << >>
    /\ UNCHANGED <<pc, cell_definitions, cell_idx, col_number, buf, stream,
                   n_rows, result, given, parsed, excel_delimiter, fetch>>

\* 'for row in rows' hands out a row with content: lines 434-436
BeginRow(r) ==
    /\ pc = "next_row"
    /\ Len(rows_pulled) < MaxRows
    /\ RowHasContent(r)
    /\ rows_pulled' = Append(rows_pulled, r)
    /\ row' = r
    /\ buf' = << >>
    /\ col_number' = 0
    /\ cell_idx' = 1
    /\ calls' = << >>
    /\ pc' = "cells"
    /\ UNCHANGED <<cell_definitions, stream, n_rows, result, given, parsed,
                   excel_delimiter, fetch>>

\* a variant that indexes the row by the position of the cell definition
CellInputByPosition(cells, r, i, col) ==
    IF IsAddOn(cells[i]) THEN [exc |-> "", x |-> None, col |-> col]
    ELSE IF i <= Len(r)
    THEN [exc |-> "", x |-> Some(r[i]), col |-> col + 1]
    ELSE [exc |-> E_Index, x |-> None, col |-> col]

\* a variant that hands out an empty str for a field the row does not have
CellInputPadded(cells, r, i, col) ==
    IF IsAddOn(cells[i]) THEN [exc |-> "", x |-> None, col |-> col]
    ELSE IF col < Len(relevant_cols(cells, r))
    THEN [exc |-> "", x |-> Some(relevant_cols(cells, r)[col + 1]), col |-> col + 1]
    ELSE [exc |-> "", x |-> Some(<< >>), col |-> col + 1]

\* lines 440-444, the value x handed to cell number i: [exc, x, col], col the
\* col_number afterwards; relevant_cols[col_number] raises past the end
CellInput(cells, r, i, col) ==
    IF IsAddOn(cells[i]) THEN [exc |-> "", x |-> None, col |-> col]
    ELSE IF col < Len(relevant_cols(cells, r))
    THEN [exc |-> "", x |-> Some(relevant_cols(cells, r)[col + 1]), col |-> col + 1]
    ELSE [exc |-> E_Index, x |-> None, col |-> col]

\* a variant that passes over every exception as it does over _SkipColumn
EvaluatedLeniently(in, out) ==
    /\ col_number' = in.col
    /\ cell_definitions' = [cell_definitions EXCEPT ![cell_idx] = out.cell]
    /\ calls' = Append(calls, [idx |-> cell_idx, x |-> in.x, field |-> in.col,
                               exc |-> out.exc, ret |-> out.ret])
    /\ buf' = IF out.exc = "" THEN Append(buf, out.ret) ELSE buf
    /\ cell_idx' = cell_idx + 1
    /\ UNCHANGED <<pc, result>>

\* lines 446-453, out the outcome of cell(x)
Evaluated(in, out) ==
    /\ col_number' = in.col
    /\ cell_definitions' = [cell_definitions EXCEPT ![cell_idx] = out.cell]
    /\ calls' = Append(calls, [idx |-> cell_idx, x |-> in.x, field |-> in.col,
                               exc |-> out.exc, ret |-> out.ret])
    /\ IF out.exc = ""
       THEN /\ buf' = Append(buf, out.ret)
            /\ cell_idx' = cell_idx + 1
            /\ UNCHANGED <<pc, result>>
       ELSE IF out.exc = E_SkipColumn
       THEN /\ cell_idx' = cell_idx + 1
            /\ UNCHANGED <<buf, pc, result>>
       ELSE /\ pc' = "raised"
            /\ result' = [NoResult EXCEPT !.kind = "raise", !.exc = E_BadRow,
                                          !.cause = out.exc, !.row = row]
            /\ UNCHANGED <<buf, cell_idx>>

CallWith(in) ==
    Evaluated(in, IF in.exc # "" THEN Raises(cell_definitions[cell_idx], in.exc)
                  ELSE Call(cell_definitions[cell_idx], in.x))

\* one iteration of 'for cell in cell_definitions' (lines 438-453)
EvalCell ==
    /\ pc = "cells"
    /\ cell_idx <= Len(cell_definitions)
    /\ CallWith(CellInput(cell_definitions, row, cell_idx, col_number))
    /\ UNCHANGED <<rows_pulled, row, stream, n_rows, given, parsed,
                   excel_delimiter, fetch>>

\* lines 455-456: csv_writer.writerow(buf); n_rows += 1
WriteRow ==
    /\ pc = "cells"
    /\ cell_idx > Len(cell_definitions)
    /\ stream' = Append(stream, buf)
    /\ n_rows' = n_rows + 1
    /\ pc' = "next_row"
    /\ UNCHANGED <<cell_definitions, rows_pulled, row, cell_idx, col_number,
                   buf, calls, result, given, parsed, excel_delimiter, fetch>>

\* the row source is exhausted: 'return n_rows'
Return ==
    /\ pc = "next_row"
    /\ pc' = "returned"
    /\ result' = [NoResult EXCEPT !.kind = "return", !.n = n_rows]
    /\ UNCHANGED <<cell_definitions, rows_pulled, row, cell_idx, col_number,
                   buf, calls, stream, n_rows, given, parsed, excel_delimiter,
                   fetch>>

Next ==
    \/ ParseDefinition
    \/ UseAsIs
    \/ \E r \in RowSamples : SkipRow(r)
    \/ \E r \in RowSamples : BeginRow(r)
    \/ EvalCell
    \/ WriteRow
    \/ Return

Spec == Init /\ [][Next]_vars

-----------------------------------------------------------------------------
(* One call of one cell definition: cell(value)                             *)

\* the longest value enumerated character by character
MaxValLen == 2

\* the characters of the enumerated values
ValueAlphabet == {" ", "1", "2", ",", ".", "a", "t"}

\* all Python strings of length at most n over the alphabet
StringsUpTo(alphabet, n) == UNION {[1..k -> alphabet] : k \in 0..n}

\* longer values
ValueSamples ==
    {<<"1", ",", "2", "3", "4">>, <<"1", ".", "2", "3", "4">>, <<"1", ".", "2", "3", ",", "4">>, <<"1", ".", "2", "3", ".", "4">>, <<"2", ".", "2", "3">>, <<"1", "2", "3", ",", "4">>, <<"-", "1">>, <<"1", ",", "2", "a", "%", "3", ".", "0">>,
     <<"T", "r", "u", "e">>, <<"F", "A", "L", "S", "E">>, <<"j">>, <<"J">>, <<"Z">>, <<"\t">>,
     <<"0">>, <<"2", ".", "9">>, <<"-", "0", ".", "5">>,
     <<"2", "0", "2", "0", "-", "0", "2", "-", "2", "9">>, <<"2", "0", "2", "1", "-", "0", "2", "-", "2", "9">>, <<"2", "0", "2", "0", "-", "1", "-", "5">>, <<"2", "0", "-", "0", "1", "-", "0", "5">>}

CallValues ==
    {None} \cup {Some(s) : s \in StringsUpTo(ValueAlphabet, MaxValLen) \cup ValueSamples}

\* the definitions, of one cell each, whose instances are called
CallDefinitions ==
    {<<"s">>, <<"s", "!">>, <<"i">>, <<"i", "!">>, <<"f">>, <<"f", "!">>, <<"b">>, <<"b", "!">>, <<"d">>, <<"d", "!">>, <<"x">>, <<"x", "!">>,
     <<"&">>, <<"&", "!">>, <<"&", "(", "v", "a", "l", "u", "e", "=", "Z", ")">>, <<"&", "(", "v", "a", "l", "u", "e", "=", "Z", ")", "!">>, <<"c">>, <<"c", "!">>, <<"c", "(", "s", "t", "a", "r", "t", "=", "5", ")">>,
     <<"i", "(", "l", "o", "w", "e", "r", "=", "2", ")">>, <<"f", "(", "l", "o", "w", "e", "r", "=", "1", ",", "u", "p", "p", "e", "r", "=", "2", ")", "!">>, <<"i", "(", "u", "p", "p", "e", "r", "=", "0", ")">>, <<"i", "(", "l", "o", "w", "e", "r", "=", "0", ")">>, <<"i", "(", "u", "p", "p", "e", "r", "=", "2", ")">>,
     <<"f", "(", "u", "p", "p", "e", "r", "=", "0", ")">>, <<"d", "(", "o", "u", "t", "_", "f", "m", "t", "=", "%", "Y", ")">>, <<"d", "(", "i", "n", "_", "f", "m", "t", "=", "%", "Y", ")">>,
     <<"f", "(", "t", "h", "o", "u", "s", "a", "n", "d", "s", "_", "s", "e", "p", "a", "r", "a", "t", "o", "r", "=", ".", ")">>, <<"i", "(", "i", "g", "n", "o", "r", "e", "_", "n", "o", "n", "_", "n", "u", "m", "e", "r", "i", "c", "=", "t", ")", "!">>,
     <<"b", "(", "t", "r", "u", "e", "=", "J", ")">>, <<"b", "(", "f", "a", "l", "s", "e", "=", "t", ")", "!">>, <<"b", "(", "t", "r", "u", "e", "=", "a", ",", "f", "a", "l", "s", "e", "=", "a", ")">>}

InitCall ==
    /\ pc = "call"
    /\ columns_definition \in CallDefinitions
    /\ cell_definitions = parse_column_definition(columns_definition).cells
    /\ value \in CallValues
    /\ rows_pulled = << >>
    /\ row = << >>
    /\ cell_idx = 1
    /\ col_number = 0
    /\ buf = << >>
    /\ calls = << >>
    /\ stream = << >>
    /\ n_rows = 0
    /\ result = NoResult
    /\ tokens = None
    /\ prebuilt = None
    /\ delimiter_char = "\t"
    /\ excel_delimiter = ","
    /\ parsed = 0
    /\ NoFetch
    /\ NoShell
    /\ earlier = << >>
    /\ ctor = << >>

\* the caller's view of the outcome r of cell(value)
Called(r) ==
    /\ cell_definitions' = [cell_definitions EXCEPT ![cell_idx] = r.cell]
    /\ result' = [NoResult EXCEPT !.kind = IF r.exc = "" THEN "return" ELSE "raise",
                                  !.exc = r.exc, !.ret = r.ret]

\* cell(value)
CallCell ==
    /\ pc = "call"
    /\ Called(Call(cell_definitions[cell_idx], value))
    /\ pc' = "called"
    /\ UNCHANGED <<rows_pulled, row, cell_idx, col_number, buf, calls,
                   stream, n_rows, given, parsed, excel_delimiter, fetch>>

NextCall == CallCell

SpecCall == InitCall /\ [][NextCall]_vars

-----------------------------------------------------------------------------
(* One call of parse_column_definition(definition)                          *)

\* the longest definition enumerated character by character
MaxDefLen == 4

\* the characters of the enumerated definitions
DefinitionAlphabet == {"s", "i", "(", ")", "!", "z"}

\* longer definitions
DefinitionSamples ==
    {<<"f", "!", "(", ")", "!">>, <<"f", "(">>, <<"i", "(", "l", "o", "w", "e", "r", "=", "1", ",", "u", "p", "p", "e", "r", "=", "2", ")", "!">>, <<"s", "(", "a", "=", "1", ")", "z">>, <<"c", "(", "s", "t", "a", "r", "t", "=", "x", ")">>, <<"s", "f", "(", "!">>,
     <<"i", "(", "l", "o", "w", "e", "r", "=", "1", ")", "(", "s">>, <<"b", "(", "t", "r", "u", "e", "=", "s", ")", "x", "!", "!">>, <<"i", "(", "l", "o", "w", "e", "r", "=", "2", ",", " ", "u", "p", "p", "e", "r", "=", "4", ",", " ", "i", "g", "n", "o", "r", "e", "_", "n", "o", "n", "_", "n", "u", "m", "e", "r", "i", "c", "=", "t", ")">>,
     <<"i", "(", "l", "o", "w", "e", "r", "=", "2", ",", "u", "p", "p", "e", "r", "=", "4", ",", "i", "g", "n", "o", "r", "e", "_", "n", "o", "n", "_", "n", "u", "m", "e", "r", "i", "c", "=", "t", ")">>}

\* the most tokens a definition is written from
MaxTokens == 2

KindChars == {"s", "f", "i", "b", "d", "&", "x", "c"}

\* a parameter list that is valid for the kind
ParameterSample(kind) ==
    CASE kind = "i" -> <<"l", "o", "w", "e", "r", "=", "1", ",", "u", "p", "p", "e", "r", "=", "2">>
      [] kind = "f" -> <<"u", "p", "p", "e", "r", "=", "2">>
      [] kind = "b" -> <<"t", "r", "u", "e", "=", "J">>
      [] kind = "d" -> <<"o", "u", "t", "_", "f", "m", "t", "=", "%", "Y">>
      [] kind = "&" -> <<"v", "a", "l", "u", "e", "=", "Z">>
      [] kind = "c" -> <<"s", "t", "a", "r", "t", "=", "5">>

\* the tokens: a kind character, an optional '(' parameter-list ')', an
\* optional '!'
Tokens ==
    {[kind |-> k, args |-> a, bang |-> b] :
        k \in KindChars, a \in {None, Some(<< >>)}, b \in BOOLEAN}
    \cup {[kind |-> k, args |-> Some(ParameterSample(k)), bang |-> b] :
            k \in KindChars \ {"s", "x"}, b \in BOOLEAN}

\* the text of a token
TokenText(t) ==
    <<t.kind>> \o (IF t.args = None THEN << >> ELSE <<"(">> \o t.args[1] \o <<")">>)
               \o (IF t.bang THEN <<"!">> ELSE << >>)

\* the definition that is the concatenation of the tokens ts
RECURSIVE Concatenation(_)
Concatenation(ts) ==
    IF ts = << >> THEN << >> ELSE TokenText(Head(ts)) \o Concatenation(Tail(ts))

\* the tokens in front of the enumerated tails
PrefixTokens ==
    {[kind |-> "s", args |-> None, bang |-> FALSE],
     [kind |-> "f", args |-> None, bang |-> TRUE],
     [kind |-> "x", args |-> Some(<< >>), bang |-> FALSE],
     [kind |-> "i", args |-> Some(ParameterSample("i")), bang |-> TRUE],
     [kind |-> "c", args |-> Some(ParameterSample("c")), bang |-> FALSE]}

\* the longest tail enumerated character by character
MaxTailLen == 2

\* what follows the tokens: nothing, or text that need not be a token
Tails ==
    StringsUpTo({"s", "(", ")", "!", "z"}, MaxTailLen)
        \cup {<<"(", ")", "!">>, <<"s", "(", "z">>, <<"i", "(", "l", "o", "w", "e", "r", "=", "1">>, <<"(", "a", "=", "1", ")">>, <<"z", "(", "s", ")">>}

SequencesUpTo(S, n) == UNION {[1..k -> S] : k \in 0..n}

InitParse ==
    /\ pc = "parse"
    /\ \/ /\ tokens = None
          /\ columns_definition \in
                StringsUpTo(DefinitionAlphabet, MaxDefLen) \cup DefinitionSamples
       \/ \E ts \in SequencesUpTo(Tokens, MaxTokens) :
             /\ tokens = Some(ts)
             /\ columns_definition = Concatenation(ts)
       \/ \E ts \in SequencesUpTo(PrefixTokens, MaxTokens), tail \in Tails :
             /\ tokens = Some(ts)
             /\ columns_definition = Concatenation(ts) \o tail
    /\ cell_definitions = << >>
    /\ value = None
    /\ rows_pulled = << >>
    /\ row = << >>
    /\ cell_idx = 0
    /\ col_number = 0
    /\ buf = << >>
    /\ calls = << >>
    /\ stream = << >>
    /\ n_rows = 0
    /\ result = NoResult
    /\ prebuilt = None
    /\ delimiter_char = "\t"
    /\ excel_delimiter = ","
    /\ parsed = 0
    /\ NoFetch
    /\ NoShell
    /\ earlier = << >>
    /\ ctor = << >>

\* the caller's view of the outcome p of parse_column_definition
ParsedOnly(p) ==
    /\ cell_definitions' = p.cells
    /\ result' = [NoResult EXCEPT !.kind = IF p.exc = "" THEN "return" ELSE "raise",
                                  !.exc = p.exc, !.char = p.char, !.pos = p.pos]

\* parse_column_definition(definition)
ParseOnly ==
    /\ pc = "parse"
    /\ ParsedOnly(parse_column_definition(columns_definition))
    /\ pc' = "parsed"
    /\ UNCHANGED <<rows_pulled, row, cell_idx, col_number, buf, calls,
                   stream, n_rows, given, parsed, excel_delimiter, fetch>>

NextParse == ParseOnly

SpecParse == InitParse /\ [][NextParse]_vars

-----------------------------------------------------------------------------
(* Construction of cell definitions, CellDefinition.__init__, and their     *)
(* comparison, CellDefinition.__eq__                                        *)

Classes ==
    {"str_", "float_", "int_", "bool_", "date_", "add_on_", "dont_include_", "counter_"}

ArgumentNames ==
    {S_lower, S_upper, S_thousands_separator, S_ignore_non_numeric, S_true, S_false,
     S_in_fmt, S_out_fmt, S_value, S_start}

\* the values given to one argument
ArgumentValues == {<<"1">>, <<"2", ".", "5">>, <<"-", "3">>, <<" ", "4">>, <<"a">>, <<".">>, <<";">>, << >>, <<"1", ".", "2", ".", "3">>, <<"t">>}

\* a value of parsed_args: [t, s, i], s the value of a str, i the value of
\* an int, b that of a bool
PyStr(s) == [t |-> "str", s |-> s, i |-> 0, b |-> FALSE]

PyInt(i) == [t |-> "int", s |-> << >>, i |-> i, b |-> FALSE]

PyBool(b) == [t |-> "bool", s |-> << >>, i |-> 0, b |-> b]

Keyword(name, tv) == [name |-> name, value |-> tv]

ConstructorCall(cls, unparsed_args, required, parsed_args) ==
    [cls |-> cls, unparsed_args |-> unparsed_args, required |-> required,
     parsed_args |-> parsed_args]

\* cls('name=value') and cls(name='value') for every class, name and value
OneArgumentCalls ==
    {ConstructorCall(cls, Some(name \o <<"=">> \o v), FALSE, << >>) :
        cls \in Classes, name \in ArgumentNames, v \in ArgumentValues}
    \cup {ConstructorCall(cls, None, FALSE, <<Keyword(name, PyStr(v))>>) :
            cls \in Classes, name \in ArgumentNames, v \in ArgumentValues}

\* calls with values that are no str, with several arguments, with ', '
TypedCalls ==
    {ConstructorCall(cls, None, FALSE, <<Keyword(name, tv)>>) :
        cls \in {"int_", "float_"},
        name \in {S_lower, S_upper, S_thousands_separator, S_ignore_non_numeric},
        tv \in {PyInt(1), PyInt(0), PyBool(TRUE)}}
    \cup {ConstructorCall("counter_", None, FALSE, <<Keyword(S_start, tv)>>) :
            tv \in {PyInt(5), PyInt(0), PyBool(TRUE)}}
    \cup {ConstructorCall("float_", Some(<<"t", "h", "o", "u", "s", "a", "n", "d", "s", "_", "s", "e", "p", "a", "r", "a", "t", "o", "r", "=", ",">>), FALSE, << >>),
          ConstructorCall("int_", Some(<<"l", "o", "w", "e", "r", "=", "1", ",", "b", "o", "u", "n", "d", "=", "2">>), FALSE, << >>),
          ConstructorCall("int_", Some(<<"l", "o", "w", "e", "r", "=", "2", ",", " ", "u", "p", "p", "e", "r", "=", "4", ",", " ", "i", "g", "n", "o", "r", "e", "_", "n", "o", "n", "_", "n", "u", "m", "e", "r", "i", "c", "=", "t">>),
                          FALSE, << >>),
          ConstructorCall("int_", Some(<<"l", "o", "w", "e", "r", "=", "2", ",", "u", "p", "p", "e", "r", "=", "4", ",", "i", "g", "n", "o", "r", "e", "_", "n", "o", "n", "_", "n", "u", "m", "e", "r", "i", "c", "=", "t">>),
                          FALSE, << >>),
          ConstructorCall("int_", Some(<<"l", "o", "w", "e", "r", "=", "x">>), FALSE,
                          <<Keyword(S_start, PyInt(1))>>)}

\* the calls whose instances are compared with each other
ComparedCalls ==
    {ConstructorCall(cls, None, r, << >>) :
        cls \in {"str_", "int_", "float_", "counter_"}, r \in BOOLEAN}
    \cup {ConstructorCall(cls, Some(<<"l", "o", "w", "e", "r", "=", "1", ",", "u", "p", "p", "e", "r", "=", "2">>), r, << >>) :
            cls \in {"int_", "float_"}, r \in BOOLEAN}
    \cup {ConstructorCall(cls, None, FALSE,
                          <<Keyword(S_lower, PyInt(1)), Keyword(S_upper, PyInt(2))>>) :
            cls \in {"int_", "float_"}}
    \cup {ConstructorCall("int_", Some(<<"u", "p", "p", "e", "r", "=", "2">>), FALSE, <<Keyword(S_lower, PyInt(1))>>),
          ConstructorCall("int_", Some(<<"l", "o", "w", "e", "r", "=", "1">>), FALSE, << >>),
          ConstructorCall("int_", Some(<<"l", "o", "w", "e", "r", "=", "1", ".", "0", ",", "u", "p", "p", "e", "r", "=", "2", ".", "9">>), FALSE, << >>),
          ConstructorCall("float_", Some(<<"l", "o", "w", "e", "r", "=", "1", ".", "0", ",", "u", "p", "p", "e", "r", "=", "2", ".", "9">>), FALSE, << >>),
          ConstructorCall("float_", Some(<<"t", "h", "o", "u", "s", "a", "n", "d", "s", "_", "s", "e", "p", "a", "r", "a", "t", "o", "r", "=", ";">>), FALSE, << >>),
          ConstructorCall("float_", None, FALSE,
                          <<Keyword(S_thousands_separator, PyStr(<<",">>))>>),
          ConstructorCall("float_", Some(<<"t", "h", "o", "u", "s", "a", "n", "d", "s", "_", "s", "e", "p", "a", "r", "a", "t", "o", "r", "=", ".">>), FALSE, << >>),
          ConstructorCall("int_", Some(<<"i", "g", "n", "o", "r", "e", "_", "n", "o", "n", "_", "n", "u", "m", "e", "r", "i", "c", "=", "t">>), FALSE, << >>),
          ConstructorCall("int_", None, FALSE,
                          <<Keyword(S_ignore_non_numeric, PyBool(TRUE))>>),
          ConstructorCall("int_", Some(<<"i", "g", "n", "o", "r", "e", "_", "n", "o", "n", "_", "n", "u", "m", "e", "r", "i", "c", "=", "f">>), FALSE, << >>),
          ConstructorCall("bool_", Some(<<"t", "r", "u", "e", "=", "J">>), FALSE, << >>),
          ConstructorCall("bool_", Some(<<"t", "r", "u", "e", "=", "j">>), FALSE, << >>),
          ConstructorCall("bool_", Some(<<"f", "a", "l", "s", "e", "=", "J">>), FALSE, << >>),
          ConstructorCall("bool_", None, FALSE, <<Keyword(S_true, PyStr(<<"J">>))>>),
          ConstructorCall("date_", Some(<<"o", "u", "t", "_", "f", "m", "t", "=", "%", "Y">>), FALSE, << >>),
          ConstructorCall("date_", Some(<<"i", "n", "_", "f", "m", "t", "=", "%", "Y">>), FALSE, << >>),
          ConstructorCall("date_", None, FALSE, << >>),
          ConstructorCall("add_on_", Some(<<"v", "a", "l", "u", "e", "=", "Z">>), FALSE, << >>),
          ConstructorCall("add_on_", None, FALSE, <<Keyword(S_value, PyStr(<<"Z">>))>>),
          ConstructorCall("add_on_", None, FALSE, << >>),
          ConstructorCall("add_on_", Some(<<"v", "a", "l", "u", "e", "=">>), FALSE, << >>),
          ConstructorCall("counter_", Some(<<"s", "t", "a", "r", "t", "=", "5">>), FALSE, << >>),
          ConstructorCall("counter_", None, FALSE, <<Keyword(S_start, PyInt(5))>>),
          ConstructorCall("counter_", Some(<<"s", "t", "a", "r", "t", "=", "0">>), FALSE, << >>),
          ConstructorCall("dont_include_", None, FALSE, << >>)}

InitInit ==
    /\ pc = "init"
    /\ \/ \E c \in OneArgumentCalls \cup TypedCalls : ctor = <<c>>
       \/ \E c \in ComparedCalls, d \in ComparedCalls : ctor = <<c, d>>
    /\ cell_idx = 1
    /\ cell_definitions = << >>
    /\ columns_definition = << >>
    /\ value = None
    /\ tokens = None
    /\ rows_pulled = << >>
    /\ row = << >>
    /\ col_number = 0
    /\ buf = << >>
    /\ calls = << >>
    /\ stream = << >>
    /\ n_rows = 0
    /\ result = NoResult
    /\ prebuilt = None
    /\ delimiter_char = "\t"
    /\ excel_delimiter = ","
    /\ parsed = 0
    /\ NoFetch
    /\ NoShell
    /\ earlier = << >>

\* the caller's view of the outcome r of a constructor call
Constructed(r) ==
    IF r.exc # ""
    THEN /\ pc' = "raised"
         /\ result' = [NoResult EXCEPT !.kind = "raise", !.exc = r.exc]
         /\ UNCHANGED <<cell_definitions, cell_idx>>
    ELSE /\ cell_definitions' = Append(cell_definitions, r.cell)
         /\ cell_idx' = cell_idx + 1
         /\ pc' = IF cell_idx = Len(ctor) THEN "constructed" ELSE "init"
         /\ result' = result

\* cls(unparsed_args, required, **parsed_args)
Construct ==
    /\ pc = "init"
    /\ Constructed(__init__(ctor[cell_idx].cls, ctor[cell_idx].unparsed_args,
                            ctor[cell_idx].required, ctor[cell_idx].parsed_args))
    /\ UNCHANGED <<rows_pulled, row, col_number, buf, calls, stream, n_rows, given,
                   parsed, excel_delimiter, fetch>>

\* cell_definitions[0] == cell_definitions[1]
Compare ==
    /\ pc = "constructed"
    /\ Len(cell_definitions) = 2
    /\ result' = [NoResult EXCEPT !.kind = "return",
                                  !.ret = __eq__(cell_definitions[1], cell_definitions[2])]
    /\ pc' = "compared"
    /\ UNCHANGED <<cell_definitions, rows_pulled, row, cell_idx, col_number, buf,
                   calls, stream, n_rows, given, parsed, excel_delimiter, fetch>>

NextInit == Construct \/ Compare

SpecInit == InitInit /\ [][NextInit]_vars

-----------------------------------------------------------------------------
(* gs_download_to_csv: the fetch loop, the rows discarded, the run of       *)
(* write_rows_as_csv_to_stream over the rows left, fail_on_no_data          *)

\* the most rows a fetched worksheet has
MaxSheetRows == 2

\* the largest skip_rows
MaxSkipRows == 2

\* the rows of the worksheets
SheetRows == {<<<<"a">>>>, <<<<"1">>, <<"b">>>>, <<<< >>>>}

\* what worksheet.get_all_values() may return
Worksheets == UNION {[1..k -> SheetRows] : k \in 0..MaxSheetRows}

\* the column definitions of the downloads
DownloadDefinitions == {<<"s", "c">>, <<"i", "!", "s">>}

InitDownload ==
    /\ pc = "fetch"
    /\ columns_definition \in DownloadDefinitions
    /\ prebuilt = None
    /\ delimiter_char = "\t"
    /\ skip_rows \in 0..MaxSkipRows
    /\ worksheet = << >>
    /\ skipped = 0
    /\ api_errors = 0
    /\ overall_tries = 0
    /\ NoShell
    /\ earlier = << >>
    /\ excel_delimiter = ","
    /\ parsed = 0
    /\ ctor = << >>
    /\ cell_definitions = << >>
    /\ rows_pulled = << >>
    /\ row = << >>
    /\ cell_idx = 0
    /\ col_number = 0
    /\ buf = << >>
    /\ calls = << >>
    /\ stream = << >>
    /\ n_rows = 0
    /\ result = NoResult
    /\ value = None
    /\ tokens = None

\* 'raise': the exception e with the message msg leaves gs_download_to_csv
RaisedByDownload(e, msg) ==
    /\ pc' = "raised"
    /\ result' = [NoResult EXCEPT !.kind = "raise", !.exc = e, !.msg = msg]

\* 'time.sleep(sleep_seconds); continue': the next attempt
Continue ==
    /\ pc' = "fetch"
    /\ result' = result

\* a variant that retries one more APIError before it gives up
ExceptAPIErrorOnceMore(notFound) ==
    IF notFound
    THEN RaisedByDownload(E_APINotFound, << >>) /\ UNCHANGED <<api_errors, overall_tries>>
    ELSE IF api_errors > 11
    THEN RaisedByDownload(E_API, << >>) /\ UNCHANGED <<api_errors, overall_tries>>
    ELSE /\ api_errors' = api_errors + 1
         /\ overall_tries' = overall_tries
         /\ Continue

\* lines 125-141, the handler of an APIError, notFound its status code being 404
ExceptAPIError(notFound) ==
    IF notFound
    THEN RaisedByDownload(E_APINotFound, << >>) /\ UNCHANGED <<api_errors, overall_tries>>
    ELSE IF api_errors > 10
    THEN RaisedByDownload(E_API, << >>) /\ UNCHANGED <<api_errors, overall_tries>>
    ELSE /\ api_errors' = api_errors + 1
         /\ overall_tries' = overall_tries
         /\ Continue

\* a variant that raises every exception that is no APIError at once
ExceptExceptionAtOnce(e, msg) ==
    RaisedByDownload(e, msg) /\ UNCHANGED <<api_errors, overall_tries>>

\* lines 142-148, the handler of every other exception
ExceptException(e, msg) ==
    IF overall_tries > 3
    THEN RaisedByDownload(e, msg) /\ UNCHANGED <<api_errors, overall_tries>>
    ELSE /\ overall_tries' = overall_tries + 1
         /\ api_errors' = api_errors
         /\ Continue

\* lines 113-116: the attempt gets the values ws of the worksheet
FetchRows(ws) ==
    /\ pc = "fetch"
    /\ worksheet' = ws
    /\ skipped' = 0
    /\ pc' = "skip"
    /\ UNCHANGED <<cell_definitions, rows_pulled, row, cell_idx, col_number, buf,
                   calls, stream, n_rows, result, given, parsed, excel_delimiter,
                   skip_rows, api_errors, overall_tries>>

\* lines 113-116 raise an APIError
FetchAPIError(notFound) ==
    /\ pc = "fetch"
    /\ ExceptAPIError(notFound)
    /\ UNCHANGED <<cell_definitions, rows_pulled, row, cell_idx, col_number, buf,
                   calls, stream, n_rows, given, parsed, excel_delimiter,
                   worksheet, skip_rows, skipped>>

\* lines 113-116 raise another exception
FetchException ==
    /\ pc = "fetch"
    /\ ExceptException(E_Connection, << >>)
    /\ UNCHANGED <<cell_definitions, rows_pulled, row, cell_idx, col_number, buf,
                   calls, stream, n_rows, given, parsed, excel_delimiter,
                   worksheet, skip_rows, skipped>>

\* lines 118-121: next(rows) discards a row
NextHeaderRow ==
    /\ pc = "skip"
    /\ skipped < skip_rows
    /\ skipped < Len(worksheet)
    /\ skipped' = skipped + 1
    /\ UNCHANGED <<pc, cell_definitions, rows_pulled, row, cell_idx, col_number, buf,
                   calls, stream, n_rows, result, given, parsed, excel_delimiter,
                   worksheet, skip_rows, api_errors, overall_tries>>

\* f"Expected {skip_rows} header rows, but not all were there."
HeaderRowsMessage(n) ==
    <<"E", "x", "p", "e", "c", "t", "e", "d", " ">> \o PyIntStr(n) \o <<" ", "h", "e", "a", "d", "e", "r", " ", "r", "o", "w", "s", ",", " ", "b", "u", "t", " ", "n", "o", "t", " ", "a", "l", "l", " ", "w", "e", "r", "e", " ", "t", "h", "e", "r", "e", ".">>

\* lines 122-123: next(rows) raises StopIteration; the ValueError raised for
\* it inside the try statement is handled by 'except Exception' (line 142)
HeaderRowMissing ==
    /\ pc = "skip"
    /\ skipped < skip_rows
    /\ skipped >= Len(worksheet)
    /\ ExceptException(E_HeaderRows, HeaderRowsMessage(skip_rows))
    /\ UNCHANGED <<cell_definitions, rows_pulled, row, cell_idx, col_number, buf,
                   calls, stream, n_rows, given, parsed, excel_delimiter,
                   worksheet, skip_rows, skipped>>

\* line 124: 'break', and the call of write_rows_as_csv_to_stream (153)
Break ==
    /\ pc = "skip"
    /\ skipped = skip_rows
    /\ pc' = "start"
    /\ UNCHANGED <<cell_definitions, rows_pulled, row, cell_idx, col_number, buf,
                   calls, stream, n_rows, result, given, parsed, excel_delimiter,
                   fetch>>

\* the rows iterator, after the discarded rows, has a next row
HasNextRow == skip_rows + Len(rows_pulled) < Len(worksheet)

\* the next row of the rows iterator
NextSheetRow == worksheet[skip_rows + Len(rows_pulled) + 1]

\* lines 159-160, after write_rows_as_csv_to_stream returned nrows
Finish(fail_on_no_data) ==
    /\ pc = "returned"
    /\ IF fail_on_no_data /\ n_rows = 0
       THEN RaisedByDownload(E_NoData, << >>)
       ELSE pc' = "done" /\ result' = result
    /\ UNCHANGED <<cell_definitions, rows_pulled, row, cell_idx, col_number, buf,
                   calls, stream, n_rows, given, parsed, excel_delimiter, fetch>>

\* 'for row in rows' of the run, over the rows left in the iterator
SkipSheetRow == HasNextRow /\ SkipRow(NextSheetRow)

BeginSheetRow == HasNextRow /\ BeginRow(NextSheetRow)

\* the iterator is exhausted
ReturnAtEnd == ~HasNextRow /\ Return

NextDownload ==
    \/ \E ws \in Worksheets : FetchRows(ws)
    \/ \E notFound \in BOOLEAN : FetchAPIError(notFound)
    \/ FetchException
    \/ NextHeaderRow
    \/ HeaderRowMissing
    \/ Break
    \/ ParseDefinition
    \/ SkipSheetRow
    \/ BeginSheetRow
    \/ EvalCell
    \/ WriteRow
    \/ ReturnAtEnd
    \/ \E fail_on_no_data \in BOOLEAN : Finish(fail_on_no_data)

SpecDownload == InitDownload /\ [][NextDownload]_vars

\* a step of the 'while True' loop of lines 110-150
FetchLoop ==
    \/ \E ws \in Worksheets : FetchRows(ws)
    \/ \E notFound \in BOOLEAN : FetchAPIError(notFound)
    \/ FetchException
    \/ NextHeaderRow
    \/ HeaderRowMissing
    \/ Break

\* the statements of the loop run one after another and nothing else runs:
\* when every call made in an attempt returns or raises and every sleep ends,
\* the loop goes on as long as it has a next step
SpecDownloadFair == SpecDownload /\ WF_vars(FetchLoop)
-----------------------------------------------------------------------------
(* DownloadGoogleSpreadsheet.shell_command and gs_downloader_shell_command  *)
(* of mara_integration.py                                                   *)

\* sys.executable
Executable == <<"/", "u", "s", "r", "/", "b", "i", "n", "/", "p", "y", "t", "h", "o", "n", "3">>

\* mara_google_sheet_downloader.__name__
main_module == <<"m", "a", "r", "a", "_", "g", "o", "o", "g", "l", "e", "_", "s", "h", "e", "e", "t", "_", "d", "o", "w", "n", "l", "o", "a", "d", "e", "r">>

\* gs_download_to_csv.callback.__name__.replace('_', '-')
flask_command_name == Replace(<<"g", "s", "_", "d", "o", "w", "n", "l", "o", "a", "d", "_", "t", "o", "_", "c", "s", "v">>, "_", <<"-">>)

_invocation(use_flask) ==
    IF use_flask THEN <<"f", "l", "a", "s", "k", " ">> \o main_module \o <<".">> \o flask_command_name
    ELSE Executable \o <<" ", "-", "m", " ">> \o main_module

\* ' \\\n': a blank, a backslash, a line break
_shell_linebreak_escape == <<" ", "\\", "\n">>

_indentions == <<" ", " ", " ", " ", " ">>

\* '{x}' in an f-string, x a str or None
Str(x) == IF x = None THEN <<"N", "o", "n", "e">> ELSE x[1]

\* a str or None is true unless it is None or ''
Truthy(x) == x # None /\ x[1] # << >>

E_Credentials ==
    "RuntimeError: Need either credentials for a google user account or for a google service account"

\* lines 127-138: the part of the command every call has
CommonOptions(key, name, definition, skip, delimiter, use_flask, fail_on_no_data) ==
    _invocation(use_flask) \o _shell_linebreak_escape \o _indentions
        \o <<" ", "-", "-", "s", "p", "r", "e", "a", "d", "s", "h", "e", "e", "t", "-", "k", "e", "y", "=", "'">> \o key \o <<"'">>
        \o <<" ", "-", "-", "w", "o", "r", "k", "s", "h", "e", "e", "t", "-", "n", "a", "m", "e", "=", "'">> \o name \o <<"'">>
        \o <<" ", "-", "-", "c", "o", "l", "u", "m", "n", "s", "-", "d", "e", "f", "i", "n", "i", "t", "i", "o", "n", "=", "'">> \o definition \o <<"'">>
        \o <<" ", "-", "-", "s", "k", "i", "p", "-", "r", "o", "w", "s", "=">> \o PyIntStr(skip)
        \o <<" ", "-", "-", "d", "e", "l", "i", "m", "i", "t", "e", "r", "-", "c", "h", "a", "r", "=", "'">> \o <<delimiter>> \o <<"'">>
        \o (IF fail_on_no_data THEN <<" ", "-", "-", "f", "a", "i", "l", "-", "o", "n", "-", "n", "o", "-", "d", "a", "t", "a">> ELSE <<" ", "-", "-", "n", "o", "-", "f", "a", "i", "l", "-", "o", "n", "-", "n", "o", "-", "d", "a", "t", "a">>)

\* lines 141-148
ServiceAccountOptions(cfg) ==
    _shell_linebreak_escape \o _indentions
        \o <<" ", "-", "-", "s", "e", "r", "v", "i", "c", "e", "-", "a", "c", "c", "o", "u", "n", "t", "-", "c", "l", "i", "e", "n", "t", "-", "i", "d", "=", "'">> \o Str(cfg.gs_service_account_client_id) \o <<"'">>
        \o <<" ", "-", "-", "s", "e", "r", "v", "i", "c", "e", "-", "a", "c", "c", "o", "u", "n", "t", "-", "p", "r", "i", "v", "a", "t", "e", "-", "k", "e", "y", "-", "i", "d", "=", "'">>
        \o Str(cfg.gs_service_account_private_key_id) \o <<"'">>
        \o <<" ", "-", "-", "s", "e", "r", "v", "i", "c", "e", "-", "a", "c", "c", "o", "u", "n", "t", "-", "p", "r", "i", "v", "a", "t", "e", "-", "k", "e", "y", "=", "'">> \o Str(cfg.gs_service_account_private_key) \o <<"'">>
        \o <<" ", "-", "-", "s", "e", "r", "v", "i", "c", "e", "-", "a", "c", "c", "o", "u", "n", "t", "-", "c", "l", "i", "e", "n", "t", "-", "e", "m", "a", "i", "l", "=", "'">>
        \o Str(cfg.gs_service_account_client_email) \o <<"'">>

\* lines 150-156
UserAccountOptions(cfg) ==
    _shell_linebreak_escape \o _indentions
        \o <<" ", "-", "-", "u", "s", "e", "r", "-", "a", "c", "c", "o", "u", "n", "t", "-", "c", "l", "i", "e", "n", "t", "-", "i", "d", "=", "'">> \o Str(cfg.gs_user_account_client_id) \o <<"'">>
        \o <<" ", "-", "-", "u", "s", "e", "r", "-", "a", "c", "c", "o", "u", "n", "t", "-", "c", "l", "i", "e", "n", "t", "-", "s", "e", "c", "r", "e", "t", "=", "'">> \o Str(cfg.gs_user_account_client_secret) \o <<"'">>
        \o <<" ", "-", "-", "u", "s", "e", "r", "-", "a", "c", "c", "o", "u", "n", "t", "-", "r", "e", "f", "r", "e", "s", "h", "-", "t", "o", "k", "e", "n", "=", "'">> \o Str(cfg.gs_user_account_refresh_token) \o <<"'">>

\* a variant that asks for credentials with flask as well
CredentialOptionsAlways(cfg, use_flask) ==
    IF Truthy(cfg.gs_service_account_client_id)
    THEN [exc |-> "", ret |-> ServiceAccountOptions(cfg)]
    ELSE IF Truthy(cfg.gs_user_account_client_id)
    THEN [exc |-> "", ret |-> UserAccountOptions(cfg)]
    ELSE [exc |-> E_Credentials, ret |-> << >>]

\* lines 139-158: [exc, ret], the options added or the error raised
CredentialOptions(cfg, use_flask) ==
    IF use_flask THEN [exc |-> "", ret |-> << >>]
    ELSE IF Truthy(cfg.gs_service_account_client_id)
    THEN [exc |-> "", ret |-> ServiceAccountOptions(cfg)]
    ELSE IF Truthy(cfg.gs_user_account_client_id)
    THEN [exc |-> "", ret |-> UserAccountOptions(cfg)]
    ELSE [exc |-> E_Credentials, ret |-> << >>]

\* the common part followed by the outcome o of the credential part
Joined(common, o) ==
    IF o.exc # "" THEN o ELSE [exc |-> "", ret |-> common \o o.ret]

\* gs_downloader_shell_command: [exc, ret]
gs_downloader_shell_command(key, name, definition, skip, delimiter, use_flask, fail) ==
    Joined(CommonOptions(key, name, definition, skip, delimiter, use_flask, fail),
           CredentialOptions(config, use_flask))

\* lines 64-71: the downloader's command piped into copy, the command that
\* mara_db.shell.copy_from_stdin_command returns
Piped(o, copy) ==
    IF o.exc # "" THEN o
    ELSE [exc |-> "", ret |-> o.ret \o _shell_linebreak_escape \o <<"|", " ">> \o copy]

\* what mara_db.shell.copy_from_stdin_command may return
CopyCommands ==
    {<<"p", "s", "q", "l", " ", "-", "-", "h", "o", "s", "t", "=", "l", "o", "c", "a", "l", "h", "o", "s", "t", " ", "m", "o", "c", "k", "_", "d", "b", " ", "-", "-", "c", "o", "m", "m", "a", "n", "d", "=", "C", "O", "P", "Y", " ", "p", "u", "b", "l", "i", "c", ".", "t", "a", "r", "g", "e", "t", "_", "t", "a", "b", "l", "e", " ", "F", "R", "O", "M", " ", "S", "T", "D", "I", "N", " ", "W", "I", "T", "H", " ", "C", "S", "V">>}

\* the spreadsheet keys, worksheet names and definitions of the commands
SpreadsheetKeys == {<<"x", "x", "x">>}

WorksheetNames == {<<"y", "y", "y">>, <<"S", "h", "e", "e", "t", " ", "1">>}

CommandDefinitions == {<<"b", "(", "t", "r", "u", "e", "=", "j", "a", ")">>, <<"s", "c">>}

\* a user account as the tests configure it, a service account
UserAccount ==
    [NoConfig EXCEPT !.gs_user_account_client_id = Some(<<"m", "o", "c", "k", "_", "c", "l", "i", "e", "n", "t", "_", "i", "d">>),
                     !.gs_user_account_client_secret = Some(<<"m", "o", "c", "k", "_", "c", "l", "i", "e", "n", "t", "_", "s", "e", "c", "r", "e", "t">>),
                     !.gs_user_account_refresh_token = Some(<<"m", "o", "c", "k", "_", "r", "e", "f", "r", "e", "s", "h", "_", "t", "o", "k", "e", "n">>)]

ServiceAccount ==
    [NoConfig EXCEPT !.gs_service_account_client_id = Some(<<"s", "a", "_", "i", "d">>),
                     !.gs_service_account_private_key_id = Some(<<"s", "a", "_", "k", "e", "y", "_", "i", "d">>),
                     !.gs_service_account_private_key = Some(<<"s", "a", "_", "k", "e", "y">>),
                     !.gs_service_account_client_email = Some(<<"s", "a", "@", "m", "a", "i", "l">>)]

\* the configurations: none, either account, both, a client id that is ''
\* or stands alone
Configs ==
    {NoConfig,
     UserAccount,
     ServiceAccount,
     [UserAccount EXCEPT !.gs_service_account_client_id = Some(<<"s", "a", "_", "i", "d">>),
                         !.gs_service_account_private_key_id = Some(<<"s", "a", "_", "k", "e", "y", "_", "i", "d">>),
                         !.gs_service_account_private_key = Some(<<"s", "a", "_", "k", "e", "y">>),
                         !.gs_service_account_client_email = Some(<<"s", "a", "@", "m", "a", "i", "l">>)],
     [UserAccount EXCEPT !.gs_service_account_client_id = Some(<< >>)],
     [NoConfig EXCEPT !.gs_user_account_client_id = Some(<< >>)],
     [NoConfig EXCEPT !.gs_service_account_client_id = Some(<<"s", "a", "_", "i", "d">>)],
     [NoConfig EXCEPT !.gs_service_account_private_key = Some(<<"s", "a", "_", "k", "e", "y">>)]}

InitCommand ==
    /\ pc = "command"
    /\ spreadsheet_key \in SpreadsheetKeys
    /\ worksheet_name \in WorksheetNames
    /\ columns_definition \in CommandDefinitions
    /\ skip_rows \in 0..MaxSkipRows
    /\ use_flask_command \in BOOLEAN
    /\ config \in Configs
    /\ earlier = << >>
    /\ delimiter_char = "\t"
    /\ prebuilt = None
    /\ worksheet = << >>
    /\ skipped = 0
    /\ api_errors = 0
    /\ overall_tries = 0
    /\ excel_delimiter = ","
    /\ parsed = 0
    /\ ctor = << >>
    /\ cell_definitions = << >>
    /\ rows_pulled = << >>
    /\ row = << >>
    /\ cell_idx = 0
    /\ col_number = 0
    /\ buf = << >>
    /\ calls = << >>
    /\ stream = << >>
    /\ n_rows = 0
    /\ result = NoResult
    /\ value = None
    /\ tokens = None

\* the caller's view of the outcome o of shell_command
Commanded(o) ==
    /\ pc' = IF o.exc = "" THEN "returned" ELSE "raised"
    /\ result' = [NoResult EXCEPT !.kind = IF o.exc = "" THEN "return" ELSE "raise",
                                  !.exc = o.exc, !.ret = o.ret]

\* DownloadGoogleSpreadsheet.shell_command of a command constructed with
\* fail_on_no_data, copy the text of mara_db's copy command
ShellCommand(fail_on_no_data, copy) ==
    /\ pc = "command"
    /\ Commanded(Piped(gs_downloader_shell_command(
                           spreadsheet_key, worksheet_name, columns_definition,
                           skip_rows, delimiter_char, use_flask_command,
                           fail_on_no_data),
                       copy))
    /\ UNCHANGED <<cell_definitions, rows_pulled, row, cell_idx, col_number, buf,
                   calls, stream, n_rows, given, parsed, excel_delimiter, fetch>>

NextCommand ==
    \E fail_on_no_data \in BOOLEAN, copy \in CopyCommands :
        ShellCommand(fail_on_no_data, copy)

SpecCommand == InitCommand /\ [][NextCommand]_vars

-----------------------------------------------------------------------------

(* successive runs of write_rows_as_csv_to_stream with the same arguments  *)

\* runs made one after another with the same columns_definition argument
MaxRuns == 2

\* the definitions passed as a str: each has a counter column
RunsDefinitions == {<<"s", "c">>, <<"c", "(", "s", "t", "a", "r", "t", "=", "5", ")", "s">>, <<"i", "(", "l", "o", "w", "e", "r", "=", "2", ")", "!", "c">>}

\* the lists of instances passed instead: each has a counter column
RunsPrebuilt ==
    {d \in PrebuiltDefinitions : \E j \in 1..Len(d) : d[j].cls = "counter_"}

\* the rows the row source may deliver in these runs
RunsRows == {<<<<"3">>>>, <<<<"a">>>>}

InitRuns ==
    /\ pc = "start"
    /\ \/ columns_definition \in RunsDefinitions /\ prebuilt = None
       \/ columns_definition = << >> /\ prebuilt \in {Some(d) : d \in RunsPrebuilt}
    /\ delimiter_char \in Delimiters
    /\ excel_delimiter = ","
    /\ parsed = 0
    /\ NoFetch
    /\ NoShell
    /\ earlier = << >>
    /\ ctor = << >>
    /\ cell_definitions = << >>
    /\ rows_pulled = << >>
    /\ row = << >>
    /\ cell_idx = 0
    /\ col_number = 0
    /\ buf = << >>
    /\ calls = << >>
    /\ stream = << >>
    /\ n_rows = 0
    /\ result = NoResult
    /\ value = None
    /\ tokens = None

\* a variant in which the next run gets instances whose count is the start
\* parameter again
PassedAgainAsNew(cells) ==
    Some([j \in 1..Len(cells) |->
            IF cells[j].cls = "counter_"
            THEN [cells[j] EXCEPT !.current_count = cells[j].start[1]]
            ELSE cells[j]])

\* lines 418-419 take the caller's list itself ('cell_definitions =
\* columns_definition'), and line 331 assigns to an attribute of its
\* instances: the list the caller passes again holds them as the run left them
PassedAgain(cells) == Some(cells)

\* what the run that has ended leaves for the property: its last record and
\* how it ended
Ended ==
    [last |-> IF stream = << >> THEN None ELSE Some(stream[Len(stream)]),
     kind |-> pc]

\* the caller calls write_rows_as_csv_to_stream again with the same
\* columns_definition argument, a new row source and a new stream, after the
\* run before it returned or raised
RunAgain ==
    /\ pc \in {"returned", "raised"}
    /\ Len(earlier) < MaxRuns - 1
    /\ earlier' = Append(earlier, Ended)
    /\ prebuilt' = IF prebuilt = None THEN None ELSE PassedAgain(cell_definitions)
    /\ pc' = "start"
    /\ cell_definitions' = << >>
    /\ rows_pulled' = << >>
    /\ row' = << >>
    /\ cell_idx' = 0
    /\ col_number' = 0
    /\ buf' = << >>
    /\ calls' = << >>
    /\ stream' = << >>
    /\ n_rows' = 0
    /\ result' = NoResult
    /\ UNCHANGED <<columns_definition, delimiter_char, value, tokens, ctor,
                   spreadsheet_key, worksheet_name, use_flask_command, config,
                   parsed, excel_delimiter, fetch>>

NextRuns ==
    \/ ParseDefinition
    \/ UseAsIs
    \/ \E r \in RunsRows : BeginRow(r)
    \/ EvalCell
    \/ WriteRow
    \/ Return
    \/ RunAgain

SpecRuns == InitRuns /\ [][NextRuns]_vars
-----------------------------------------------------------------------------
(* Properties of write_rows_as_csv_to_stream (specification Spec) *)

\* the rows among rs that have at least one non-empty field
RowsWithContent(rs) ==
    {i \in 1..Len(rs) : \E j \in 1..Len(rs[i]) : rs[i][j] # << >>}

\* C1: when the run returns, the number returned is the number of records in
\* the sink, and it is the number of rows pulled that have at least one
\* non-empty field (a row of empty strings, or without fields, is not counted)
C1_ReturnsWrittenRows ==
    pc = "returned" =>
        /\ result.n = Len(stream)
        /\ result.n = Cardinality(RowsWithContent(rows_pulled))

\* a run that returned after skipping a row of empty strings and writing another
C1_Witness ==
    /\ pc = "returned"
    /\ result.n = 1
    /\ \E i \in 1..Len(rows_pulled) : rows_pulled[i] = <<<< >>, << >>>>
    /\ \E i \in 1..Len(rows_pulled) : rows_pulled[i] = <<<<" ">>>>

\* the rows pulled before the current one
EarlierRows == SubSeq(rows_pulled, 1, Len(rows_pulled) - 1)

\* C2: a cell call that raises (other than the omit signal) ends the run at
\* that call with the row-level error carrying the raw row and the cause; the
\* sink holds one record per earlier row with content and none for the failing
\* row, and nothing more happens
C2_AbortsAtFirstBadRow ==
    /\ \A j \in 1..Len(calls) :
          calls[j].exc \notin {"", E_SkipColumn} =>
              /\ j = Len(calls)
              /\ pc = "raised"
              /\ result.exc = E_BadRow
    /\ (pc = "raised" /\ result.exc = E_BadRow) =>
          /\ result.kind = "raise"
          /\ result.row = rows_pulled[Len(rows_pulled)]
          /\ result.cause = calls[Len(calls)].exc
          /\ result.cause \notin {"", E_SkipColumn}
          /\ Len(stream) = Cardinality(RowsWithContent(EarlierRows))
          /\ n_rows = Len(stream)
          /\ ~ENABLED Next

\* a run aborted at its second row, in the second cell, after one record
C2_Witness ==
    /\ pc = "raised"
    /\ result.exc = E_BadRow
    /\ Len(rows_pulled) >= 2
    /\ Len(stream) = 1
    /\ Len(calls) = 2
    /\ buf # << >>

\* the number of specifications among the first j that are not synthetic
RealUpTo(cells, j) ==
    Cardinality({i \in 1..j : cells[i].cls \notin {"add_on_", "counter_"}})

\* the specifications that are not omitted
Kept(cells) == {i \in 1..Len(cells) : cells[i].cls # "dont_include_"}

\* the values returned by the calls made for the current row, in call order
RECURSIVE ReturnedValues(_)
ReturnedValues(cs) ==
    IF cs = << >> THEN << >>
    ELSE ReturnedValues(SubSeq(cs, 1, Len(cs) - 1))
            \o (IF cs[Len(cs)].exc = "" THEN <<cs[Len(cs)].ret>> ELSE << >>)

\* C3: the j-th call of a row is made on the j-th specification; a synthetic
\* one gets no value and consumes no field, the k-th non-synthetic one gets
\* the k-th field of the row; no field past the number of non-synthetic
\* specifications is read; the buffer holds the returned values in definition
\* order, and every record has one entry per specification that is not omit
C3_FieldsFollowRealColumns ==
    /\ \A j \in 1..Len(calls) :
          /\ calls[j].idx = j
          /\ calls[j].field <= RealUpTo(cell_definitions, Len(cell_definitions))
          /\ (calls[j].exc = E_SkipColumn) <=>
                (cell_definitions[j].cls = "dont_include_" /\ calls[j].exc # E_Index)
          /\ IF cell_definitions[j].cls \in {"add_on_", "counter_"}
             THEN calls[j].x = None
             ELSE \/ /\ calls[j].exc = E_Index
                     /\ RealUpTo(cell_definitions, j) > Len(row)
                  \/ /\ RealUpTo(cell_definitions, j) <= Len(row)
                     /\ calls[j].field = RealUpTo(cell_definitions, j)
                     /\ calls[j].x = Some(row[RealUpTo(cell_definitions, j)])
    /\ pc = "cells" => buf = ReturnedValues(calls)
    /\ \A i \in 1..Len(stream) :
          Len(stream[i]) = Cardinality(Kept(cell_definitions))
    /\ (pc = "next_row" /\ stream # << >>) => stream[Len(stream)] = buf

\* a row with a surplus field, formatted by an omit, a counter and a text
\* specification, ready to be written
C3_Witness ==
    /\ pc = "cells"
    /\ cell_idx > Len(cell_definitions)
    /\ columns_definition = <<"x", "c", "s">>
    /\ row = <<<<"3">>, <<"t">>, <<"x">>>>
    /\ buf = <<<<"1">>, <<"t">>>>

\* the position of specification j in a record
OutPos(cells, j) == Cardinality({i \in 1..j : cells[i].cls # "dont_include_"})

\* the running count of cell definition j when the run started
CountAtStart(j) ==
    IF prebuilt = None THEN cell_definitions[j].start[1]
    ELSE prebuilt[1][j].current_count

\* C4: in every counter column each record carries one more than the record
\* before it, and between rows the running count is its value at the start of
\* the run plus the number of records written (skipped rows do not advance it)
C4_CounterStepsOncePerWrittenRow ==
    \A j \in 1..Len(cell_definitions) :
        cell_definitions[j].cls = "counter_" =>
            /\ \A i \in 1..(Len(stream) - 1) :
                  ParseInt(stream[i + 1][OutPos(cell_definitions, j)]).val
                      = ParseInt(stream[i][OutPos(cell_definitions, j)]).val + 1
            /\ pc \in {"next_row", "returned"} =>
                  cell_definitions[j].current_count = CountAtStart(j) + Len(stream)

\* two records written around a skipped row, with a counter column
C4_Witness ==
    /\ pc = "returned"
    /\ Len(stream) = 2
    /\ Len(rows_pulled) = 3
    /\ rows_pulled[2] = <<<< >>>>
    /\ \E j \in 1..Len(cell_definitions) : cell_definitions[j].cls = "counter_"

\* C5: in a run with a freshly parsed definition, the first record written
\* carries the counter's start value
C5_FirstRecordCarriesStart ==
    \A j \in 1..Len(cell_definitions) :
        (prebuilt = None /\ cell_definitions[j].cls = "counter_" /\ stream # << >>) =>
            stream[1][OutPos(cell_definitions, j)]
                = PyIntStr(cell_definitions[j].start[1])

-----------------------------------------------------------------------------
(* Properties of CellDefinition.__call__ (specification SpecCall) *)

\* the cell definition as it was constructed, before the call
CellBefore == parse_column_definition(columns_definition).cells[1]

\* s holds nothing but whitespace (the empty string included)
OnlyWhitespace(s) == \A k \in 1..Len(s) : s[k] \in {" ", "\t"}

\* the call was made on a cell definition that is not omit
CalledKept == pc = "called" /\ cell_definitions[1].cls # "dont_include_"

\* the inputs whose formatted result is empty
FormatsToEmpty(cell, val) ==
    \/ val # None /\ OnlyWhitespace(val[1])
    \/ val = None /\ cell.cls \in {"str_", "int_", "float_"}
    \/ val = None /\ cell.cls = "add_on_" /\ cell.value = Some(<< >>)

\* C6: a required cell definition never returns the empty string; on the
\* inputs whose formatted result is empty it raises the required-empty error,
\* and an optional one returns the empty string on the same inputs; only a
\* required one raises that error
C6_RequiredNeverReturnsEmpty ==
    CalledKept =>
        /\ cell_definitions[1].required =>
              ~(result.kind = "return" /\ result.ret = << >>)
        /\ FormatsToEmpty(cell_definitions[1], value) =>
              IF cell_definitions[1].required
              THEN result.kind = "raise" /\ result.exc = E_Required
              ELSE result.kind = "return" /\ result.ret = << >>
        /\ result.exc = E_Required => cell_definitions[1].required

\* a required int_ called with a blank raised the required-empty error
C6_Witness ==
    /\ pc = "called"
    /\ columns_definition = <<"i", "!">>
    /\ value = Some(<<" ">>)
    /\ result.exc = E_Required

\* C7: a value of whitespace only is formatted to the empty string without
\* the class's validate_and_format_value: the call returns the empty string
\* (the required check then raising for a required cell definition), no
\* numeric, boolean, date or other failure of the class results, and the cell
\* definition, a counter's current_count included, is as it was
C7_WhitespaceBypassesFormatting ==
    (CalledKept /\ value # None /\ OnlyWhitespace(value[1])) =>
        /\ IF cell_definitions[1].required
           THEN result.kind = "raise" /\ result.exc = E_Required
           ELSE result.kind = "return" /\ result.ret = << >>
        /\ cell_definitions[1] = CellBefore

\* a counter called with a blank returned the empty string and did not count
C7_Witness ==
    /\ pc = "called"
    /\ columns_definition = <<"c", "(", "s", "t", "a", "r", "t", "=", "5", ")">>
    /\ value = Some(<<" ">>)
    /\ result.kind = "return"
    /\ result.ret = << >>
    /\ cell_definitions[1].current_count = 5

\* the call was made on an add_on_ or a counter_
CalledSynthetic ==
    pc = "called" /\ cell_definitions[1].cls \in {"add_on_", "counter_"}

\* the error of the class for a call with a value
CannotBeUsedWithValue(cls) == IF cls = "add_on_" THEN E_AddOn ELSE E_Counter

\* what a synthetic cell definition, before the call, yields without a value
ReturnedWithoutValue(before) ==
    IF before.cls = "counter_"
    THEN /\ result.kind = "return"
         /\ result.ret = PyIntStr(before.current_count + 1)
         /\ cell_definitions[1] = [before EXCEPT !.current_count = @ + 1]
    ELSE /\ cell_definitions[1] = before
         /\ IF before.required /\ before.value = Some(<< >>)
            THEN result.kind = "raise" /\ result.exc = E_Required
            ELSE result.kind = "return" /\ result.ret = before.value[1]

\* C8, as stated: a synthetic cell definition raises for every value but None
C8_RaisesForEveryValue ==
    (CalledSynthetic /\ value # None) => result.kind = "raise"

\* C8, amended: a synthetic cell definition raises its own error for every
\* value that is neither None nor whitespace only; a value of whitespace only
\* is not rejected: the call returns the empty string (raises the
\* required-empty error when required) and counts nothing; without a value it
\* returns its constant or its next count
C8_RaisesForEveryNonBlankValue ==
    CalledSynthetic =>
        IF value = None THEN ReturnedWithoutValue(CellBefore)
        ELSE IF OnlyWhitespace(value[1])
        THEN /\ IF cell_definitions[1].required
                THEN result.kind = "raise" /\ result.exc = E_Required
                ELSE result.kind = "return" /\ result.ret = << >>
             /\ cell_definitions[1] = CellBefore
        ELSE /\ result.kind = "raise"
             /\ result.exc = CannotBeUsedWithValue(cell_definitions[1].cls)
             /\ cell_definitions[1] = CellBefore

\* an add_on_ with a constant, called with the empty string, returned the
\* empty string
C8_Witness ==
    /\ pc = "called"
    /\ columns_definition = <<"&", "(", "v", "a", "l", "u", "e", "=", "Z", ")">>
    /\ value = Some(<< >>)
    /\ result.kind = "return"
    /\ result.ret = << >>


\* an int_ or float_ was called with a str that is not blank
CalledNumeric ==
    /\ pc = "called"
    /\ IsNumeric(cell_definitions[1].cls)
    /\ value # None
    /\ ~OnlyWhitespace(value[1])

\* the three steps on the text s: only digits, ',' and '.' are kept if
\* ignore is set; the grouping separator sep is removed; ',' becomes '.'
WithoutOthers(s, ignore) ==
    IF ignore THEN SelectSeq(s, LAMBDA c : IsDigit(c) \/ c = "," \/ c = ".") ELSE s

WithoutSeparator(s, sep) == SelectSeq(s, LAMBDA c : c # sep)

WithPoints(s) == [k \in 1..Len(s) |-> IF s[k] = "," THEN "." ELSE s[k]]

GroupingSeparator(cell) == IF cell.thousands_separator = Some(<<".">>) THEN "." ELSE ","

HandedToConversion(cell, s) ==
    WithPoints(WithoutSeparator(WithoutOthers(s, cell.ignore_non_numeric = Some(TRUE)),
                                GroupingSeparator(cell)))

Points(s) == Cardinality({k \in 1..Len(s) : s[k] = "."})

\* digits with at most one point among them
Decimal(s) ==
    /\ \A k \in 1..Len(s) : IsDigit(s[k]) \/ s[k] = "."
    /\ \E k \in 1..Len(s) : IsDigit(s[k])
    /\ Points(s) <= 1

Unsigned(s) == IF s # << >> /\ s[1] \in {"-", "+"} THEN Tail(s) ELSE s

\* a decimal with an optional sign in front and whitespace around it
SignedDecimal(s) == Decimal(Unsigned(Strip(s)))

\* the call raised the error of the converter
Unparseable == result.kind = "raise" /\ result.exc = E_NotParseable

\* the call of the cell of the definition def with the value v returned ret
ReturnsFor(def, v, ret) ==
    (columns_definition = def /\ value = Some(v)) =>
        result.kind = "return" /\ result.ret = ret

\* what the call returns is the number converted from the text of the three
\* steps, and the examples
ConvertsNormalised(text) ==
    /\ result.kind = "return" =>
          /\ converter(cell_definitions[1].cls, text).ok
          /\ result.ret = NumStr(converter(cell_definitions[1].cls, text).val,
                                 cell_definitions[1].cls = "int_")
    /\ ReturnsFor(<<"i">>, <<"1", ",", "2", "3", "4">>, <<"1", "2", "3", "4">>)
    /\ ReturnsFor(<<"f">>, <<"1", ",", "2", "3", "4">>, <<"1", "2", "3", "4", ".", "0">>)
    /\ ReturnsFor(<<"f">>, <<"1", "2", "3", ",", "4">>, <<"1", "2", "3", "4", ".", "0">>)
    /\ ReturnsFor(<<"f", "(", "t", "h", "o", "u", "s", "a", "n", "d", "s", "_", "s", "e", "p", "a", "r", "a", "t", "o", "r", "=", ".", ")">>, <<"1", ".", "2", "3", "4">>, <<"1", "2", "3", "4", ".", "0">>)
    /\ ReturnsFor(<<"f", "(", "t", "h", "o", "u", "s", "a", "n", "d", "s", "_", "s", "e", "p", "a", "r", "a", "t", "o", "r", "=", ".", ")">>, <<"1", ",", "2", "3", "4">>, <<"1", ".", "2", "3", "4">>)
    /\ ReturnsFor(<<"f", "(", "t", "h", "o", "u", "s", "a", "n", "d", "s", "_", "s", "e", "p", "a", "r", "a", "t", "o", "r", "=", ".", ")">>, <<"1", ".", "2", "3", ",", "4">>, <<"1", "2", "3", ".", "4">>)
    /\ ReturnsFor(<<"i", "(", "i", "g", "n", "o", "r", "e", "_", "n", "o", "n", "_", "n", "u", "m", "e", "r", "i", "c", "=", "t", ")", "!">>, <<"1", ",", "2", "a", "%", "3", ".", "0">>, <<"1", "2", "3">>)
    /\ Points(text) >= 2 => Unparseable

Converted ==
    converter(cell_definitions[1].cls,
              HandedToConversion(cell_definitions[1], value[1]))

\* the number n as a count of its smallest decimal unit, scaled by 10^k
Scaled(n, k) == (IF n.neg THEN -n.mag ELSE n.mag) * Pow10(k)

\* L <= v
AtLeast(v, L) == Scaled(L, v.scale) <= Scaled(v, L.scale)

\* (L is unset or L <= v) and (U is unset or v <= U)
WithinBounds(cell, v) ==
    /\ cell.lower = None \/ AtLeast(v, cell.lower[1])
    /\ cell.upper = None \/ AtLeast(cell.upper[1], v)

\* the call of the cell of the definition def with the value v was out of range
OutOfRangeFor(def, v) ==
    (columns_definition = def /\ value = Some(v)) =>
        result.kind = "raise" /\ result.exc = E_Range

CalledBool ==
    /\ pc = "called"
    /\ cell_definitions[1].cls = "bool_"
    /\ value # None
    /\ ~OnlyWhitespace(value[1])

BuiltinTrue == {<<"t", "r", "u", "e">>, <<"t">>, <<"1">>}

BuiltinFalse == {<<"f", "a", "l", "s", "e">>, <<"f">>, <<"0">>}

\* the literal k is the one the parameter p gives
GivenBy(p, k) == p # None /\ p[1] # << >> /\ StrLower(p[1]) = k

\* the call returned the str of the bool b
ReturnsBool(b) ==
    result.kind = "return" /\ result.ret = (IF b THEN <<"T", "r", "u", "e">> ELSE <<"F", "a", "l", "s", "e">>)

\* C17, as stated: compared without case, 'true', 't', '1' and the literal of
\* the parameter true are true, 'false', 'f', '0' and the literal of the
\* parameter false are false, and every other literal that is not blank raises
C17_LiteralsAsStated ==
    CalledBool =>
        /\ (\/ StrLower(value[1]) \in BuiltinTrue
            \/ GivenBy(cell_definitions[1].true, StrLower(value[1]))) =>
              ReturnsBool(TRUE)
        /\ (\/ StrLower(value[1]) \in BuiltinFalse
            \/ GivenBy(cell_definitions[1].false, StrLower(value[1]))) =>
              ReturnsBool(FALSE)
        /\ (/\ StrLower(value[1]) \notin BuiltinTrue \cup BuiltinFalse
            /\ ~GivenBy(cell_definitions[1].true, StrLower(value[1]))
            /\ ~GivenBy(cell_definitions[1].false, StrLower(value[1]))) =>
              (result.kind = "raise" /\ result.exc = E_Bool)

\* what the literal k means to the cell: the parameter false before the
\* parameter true before the built-in literals; "" for no meaning
MeaningOf(cell, k) ==
    IF GivenBy(cell.false, k) THEN "False"
    ELSE IF GivenBy(cell.true, k) THEN "True"
    ELSE IF k \in BuiltinFalse THEN "False"
    ELSE IF k \in BuiltinTrue THEN "True"
    ELSE ""

\* C17, amended: the literal of the parameter false is false, else the
\* literal of the parameter true is true, else 'true', 't', '1' are true and
\* 'false', 'f', '0' are false, all compared without case and without
\* stripping; every other literal that is not blank raises
C17_ParametersOverrideBuiltins ==
    CalledBool =>
        /\ MeaningOf(cell_definitions[1], StrLower(value[1])) = "True" => ReturnsBool(TRUE)
        /\ MeaningOf(cell_definitions[1], StrLower(value[1])) = "False" => ReturnsBool(FALSE)
        /\ MeaningOf(cell_definitions[1], StrLower(value[1])) = "" =>
              (result.kind = "raise" /\ result.exc = E_Bool)

\* b(false=t)! was called with 't' and returned 'False'
C17_Witness ==
    /\ pc = "called"
    /\ columns_definition = <<"b", "(", "f", "a", "l", "s", "e", "=", "t", ")", "!">>
    /\ value = Some(<<"t">>)
    /\ ReturnsBool(FALSE)

\* C18: a date_ parses its value with the input pattern given as a parameter
\* and writes it with the output pattern given as a parameter: with
\* out_fmt=%Y the value '2020-02-29' is returned as '2020', and with
\* in_fmt=%Y the value '2020-02-29', which is no year, is not returned as a
\* date of the default pattern
C18_UsesSuppliedPatterns ==
    pc = "called" =>
        /\ ReturnsFor(<<"d", "(", "o", "u", "t", "_", "f", "m", "t", "=", "%", "Y", ")">>, <<"2", "0", "2", "0", "-", "0", "2", "-", "2", "9">>, <<"2", "0", "2", "0">>)
        /\ (columns_definition = <<"d", "(", "i", "n", "_", "f", "m", "t", "=", "%", "Y", ")">> /\ value = Some(<<"2", "0", "2", "0", "-", "0", "2", "-", "2", "9">>)) =>
              ~(result.kind = "return" /\ result.ret = <<"2", "0", "2", "0", "-", "0", "2", "-", "2", "9">>)
-----------------------------------------------------------------------------
(* Properties of parse_column_definition (specification SpecParse) *)

\* the class a kind character selects
KindClass(ch) ==
    CASE ch = "s" -> "str_"
      [] ch = "f" -> "float_"
      [] ch = "i" -> "int_"
      [] ch = "b" -> "bool_"
      [] ch = "d" -> "date_"
      [] ch = "&" -> "add_on_"
      [] ch = "x" -> "dont_include_"
      [] ch = "c" -> "counter_"

\* no argument of the cell definition was given
DefaultParameters(cell) ==
    /\ \A a \in {"lower", "upper", "thousands_separator", "ignore_non_numeric",
                 "true", "false", "in_fmt", "out_fmt"} : cell[a] = None
    /\ cell.value = IF cell.cls = "add_on_" THEN Some(<< >>) ELSE None
    /\ cell.start = IF cell.cls = "counter_" THEN Some(0) ELSE None
    /\ cell.current_count = 0
    /\ cell.in_format = IF cell.cls = "date_" THEN Some(<<"%", "Y", "-", "%", "m", "-", "%", "d">>) ELSE None
    /\ cell.out_format = cell.in_format
    /\ cell._valid_str_values =
          IF cell.cls = "bool_"
          THEN [k \in {<<"t", "r", "u", "e">>, <<"t">>, <<"1">>, <<"f", "a", "l", "s", "e">>, <<"f">>, <<"0">>}
                    |-> k \in {<<"t", "r", "u", "e">>, <<"t">>, <<"1">>}]
          ELSE << >>

\* the definition was written from the tokens ts alone
WrittenFrom(ts) == tokens = Some(ts) /\ columns_definition = Concatenation(ts)

\* the cell definitions returned for the tokens ts
OnePerToken(ts) ==
    /\ result.kind = "return"
    /\ Len(cell_definitions) = Len(ts)
    /\ \A i \in 1..Len(ts) :
          /\ cell_definitions[i].cls = KindClass(ts[i].kind)
          /\ cell_definitions[i].required = ts[i].bang
          /\ ts[i].args \in {None, Some(<< >>)} =>
                DefaultParameters(cell_definitions[i])

\* C9: a definition that is a concatenation of tokens is parsed into one cell
\* definition per token, in order, of the class its kind character selects,
\* required iff the token ends with '!', and with default parameters when the
\* token has no parameter list or an empty one; the empty definition gives
\* the empty list
C9_OneSpecificationPerToken ==
    (pc = "parsed" /\ tokens # None /\ WrittenFrom(tokens[1])) => OnePerToken(tokens[1])

\* two tokens, the first with parameters and a '!', parsed into two cells
C9_Witness ==
    /\ pc = "parsed"
    /\ tokens # None
    /\ columns_definition = <<"i", "(", "l", "o", "w", "e", "r", "=", "1", ",", "u", "p", "p", "e", "r", "=", "2", ")", "!", "s", "(", ")">>
    /\ Len(cell_definitions) = 2
    /\ cell_definitions[1].required
    /\ cell_definitions[1].upper # None
    /\ ~cell_definitions[2].required

\* the grammar error e was raised for position at (1-based), nothing returned
GrammarError(e, at) ==
    /\ result.kind = "raise"
    /\ result.exc = e
    /\ result.pos = at
    /\ cell_definitions = << >>

\* ch after the tokens ts belongs to the last of them
Continues(ts, ch) ==
    /\ ts # << >>
    /\ \/ ch = "(" /\ ts[Len(ts)].args = None /\ ~ts[Len(ts)].bang
       \/ ch = "!" /\ ~ts[Len(ts)].bang

NoClosingAfter(s, at) == \A k \in (at + 1)..Len(s) : s[k] # ")"

\* the errors of a definition that is the tokens ts and then tail, n the
\* length of the text of ts
TailErrors(ts, n, tail) ==
    /\ (tail # << >> /\ tail[1] \notin KindChars /\ ~Continues(ts, tail[1])) =>
          GrammarError(E_UnknownCell, n + 1) /\ result.char = tail[1]
    /\ (Len(tail) >= 2 /\ tail[1] \in KindChars /\ tail[2] = "("
            /\ NoClosingAfter(tail, 2)) =>
          GrammarError(E_NoClosingBracket, n + 2)
    /\ (tail # << >> /\ tail[1] = "(" /\ Continues(ts, "(")
            /\ NoClosingAfter(tail, 1)) =>
          GrammarError(E_NoClosingBracket, n + 1)
    /\ (ts # << >> /\ ts[Len(ts)].bang /\ tail # << >> /\ tail[1] = "(") =>
          GrammarError(E_UnknownCell, n + 1) /\ result.char = "("

\* C10: (a) where a token has to start and the character is not a kind
\* character, the parse raises the unknown-cell error naming that character
\* and its 1-based position; (b) a '(' after a kind character with no ')'
\* after it raises the no-closing-bracket error with the 1-based position of
\* the '('; (c) a '(' after a '!' is read as the start of a token and raises
\* the unknown-cell error; either error returns no cell definitions and names
\* a place of the definition where it applies
C10_GrammarErrors ==
    pc = "parsed" =>
        /\ result.exc = E_UnknownCell =>
              /\ GrammarError(E_UnknownCell, result.pos)
              /\ result.pos \in 1..Len(columns_definition)
              /\ columns_definition[result.pos] = result.char
              /\ result.char \notin KindChars
        /\ result.exc = E_NoClosingBracket =>
              /\ GrammarError(E_NoClosingBracket, result.pos)
              /\ result.pos \in 2..Len(columns_definition)
              /\ columns_definition[result.pos] = "("
              /\ columns_definition[result.pos - 1] \in KindChars
              /\ NoClosingAfter(columns_definition, result.pos)
        /\ tokens # None =>
              TailErrors(tokens[1], Len(Concatenation(tokens[1])),
                         SubSeq(columns_definition, Len(Concatenation(tokens[1])) + 1,
                                Len(columns_definition)))

\* 'f!()!': the '(' at position 3 was rejected as an unknown kind character
C10_Witness ==
    /\ pc = "parsed"
    /\ tokens = Some(<<[kind |-> "f", args |-> None, bang |-> TRUE]>>)
    /\ columns_definition = <<"f", "!", "(", ")", "!">>
    /\ result.exc = E_UnknownCell
    /\ result.char = "("
    /\ result.pos = 3


\* C14: the definition 'i(lower=2, upper=4, ignore_non_numeric=t)', with a
\* blank after each comma, parses to one int_ with lower 2, upper 4 and
\* ignore_non_numeric true, the result of the definition without the blanks
C14_BlankAfterCommaIsAccepted ==
    (pc = "parsed" /\ columns_definition = <<"i", "(", "l", "o", "w", "e", "r", "=", "2", ",", " ", "u", "p", "p", "e", "r", "=", "4", ",", " ", "i", "g", "n", "o", "r", "e", "_", "n", "o", "n", "_", "n", "u", "m", "e", "r", "i", "c", "=", "t", ")">>) =>
        /\ result.kind = "return"
        /\ Len(cell_definitions) = 1
        /\ cell_definitions[1].cls = "int_"
        /\ cell_definitions[1].ignore_non_numeric = Some(TRUE)
        /\ cell_definitions =
              parse_column_definition(<<"i", "(", "l", "o", "w", "e", "r", "=", "2", ",", "u", "p", "p", "e", "r", "=", "4", ",", "i", "g", "n", "o", "r", "e", "_", "n", "o", "n", "_", "n", "u", "m", "e", "r", "i", "c", "=", "t", ")">>).cells
-----------------------------------------------------------------------------
(* The definition argument of write_rows_as_csv_to_stream (specification Spec) *)

\* the errors parse_column_definition raises
ParseErrors ==
    {E_UnknownCell, E_NoClosingBracket, E_NotAnArgument, E_InvalidArgument, E_Unpack}

\* no row was pulled and nothing was written
NothingDone == rows_pulled = << >> /\ stream = << >> /\ n_rows = 0

\* the loop over the rows is about to pull its first row
AtFirstRow == pc = "next_row" /\ rows_pulled = << >>

\* the run of a definition given as a str, p what parsing it gives
StrDefinitionRun(p) ==
    /\ pc # "start" => parsed = 1
    /\ IF p.exc # ""
       THEN /\ pc \in {"start", "raised"}
            /\ NothingDone
            /\ pc = "raised" => result.kind = "raise" /\ result.exc = p.exc
       ELSE /\ result.exc \notin ParseErrors
            /\ AtFirstRow => cell_definitions = p.cells

\* C11: a definition given as a str is parsed exactly once, before the first
\* row is pulled; when the parse raises, the run raises that error with no row
\* pulled and nothing written; a definition given as a list is used as it is,
\* without any parse
C11_ParsedOnceBeforeRows ==
    /\ pc = "start" => parsed = 0 /\ NothingDone
    /\ prebuilt = None => StrDefinitionRun(parse_column_definition(columns_definition))
    /\ prebuilt # None =>
          /\ parsed = 0
          /\ result.exc \notin ParseErrors
          /\ AtFirstRow => cell_definitions = prebuilt[1]

\* the run of 's(' raised the grammar error after its one parse
C11_Witness ==
    /\ pc = "raised"
    /\ columns_definition = <<"s", "(">>
    /\ prebuilt = None
    /\ result.exc = E_NoClosingBracket
    /\ parsed = 1
    /\ rows_pulled = << >>


\* C19: a run changes nothing but the cell definitions it was given and the
\* stream it writes to; the delimiter of the dialect csv.excel, which every
\* user of the csv module shares, stays the ',' it was before the run
C19_SharedDialectUnchanged == excel_delimiter = ","
-----------------------------------------------------------------------------
(* Properties of CellDefinition.__init__ and __eq__ (specification SpecInit) *)

\* the one constructor call made was cls('name=v') or cls(name='v')
OneArgument(cls, name, v) ==
    \/ ctor = <<ConstructorCall(cls, Some(name \o <<"=">> \o v), FALSE, << >>)>>
    \/ ctor = <<ConstructorCall(cls, None, FALSE, <<Keyword(name, PyStr(v))>>)>>

\* the texts among ArgumentValues that are numbers, and those that are integers
NumericTexts == {<<"1">>, <<"2", ".", "5">>, <<"-", "3">>, <<" ", "4">>}

IntegerTexts == {<<"1">>, <<"-", "3">>, <<" ", "4">>}

\* the constructor call raised the error e and gave no instance
ConstructionError(e) ==
    pc = "raised" /\ result.kind = "raise" /\ result.exc = e /\ cell_definitions = << >>

\* a name the class does not define, a text that is no number for lower,
\* upper or start
RejectedAtConstruction(cls, name, v) ==
    /\ name \notin _arguments(cls) => ConstructionError(E_NotAnArgument)
    /\ (cls \in {"int_", "float_"} /\ name \in {S_lower, S_upper}
            /\ v \notin NumericTexts) =>
          ConstructionError(E_InvalidArgument)
    /\ (cls = "counter_" /\ name = S_start /\ v \notin IntegerTexts) =>
          ConstructionError(E_InvalidArgument)

TheCell == cell_definitions[1]

\* lower, upper and start with a proper text are set; a thousands_separator
\* and an ignore_non_numeric are never rejected
AcceptedAtConstruction(cls, name, v) ==
    /\ (cls \in {"int_", "float_"} /\ name \in {S_lower, S_upper}
            /\ v \in NumericTexts) =>
          pc = "constructed" /\ getattr(TheCell, name) # None
    /\ (cls = "counter_" /\ name = S_start /\ v \in IntegerTexts) =>
          pc = "constructed" /\ TheCell.start # None
    /\ (cls \in {"int_", "float_"} /\ name = S_thousands_separator) =>
          /\ pc = "constructed"
          /\ TheCell.thousands_separator = Some(IF v = <<".">> THEN <<".">> ELSE <<",">>)
    /\ (cls \in {"int_", "float_"} /\ name = S_ignore_non_numeric) =>
          /\ pc = "constructed"
          /\ TheCell.ignore_non_numeric = Some(v \in {<<"t">>, <<"1">>})

SameParameters(a, b) ==
    /\ a.lower = b.lower
    /\ a.upper = b.upper
    /\ a.thousands_separator = b.thousands_separator
    /\ a.ignore_non_numeric = b.ignore_non_numeric
    /\ a.true = b.true
    /\ a.false = b.false
    /\ a.in_fmt = b.in_fmt
    /\ a.out_fmt = b.out_fmt
    /\ a.value = b.value
    /\ a.start = b.start

\* the two calls int_('lower=1,upper=2', required) -- what the parse of
\* 'i(lower=1,upper=2)' constructs -- and int_(lower=1, upper=2)
FromStringAndFromKeywords(cls) ==
    ctor = <<ConstructorCall(cls, Some(<<"l", "o", "w", "e", "r", "=", "1", ",", "u", "p", "p", "e", "r", "=", "2">>), FALSE, << >>),
             ConstructorCall(cls, None, FALSE,
                             <<Keyword(S_lower, PyInt(1)), Keyword(S_upper, PyInt(2))>>)>>

\* the two calls differ in required and in nothing else
DifferInRequiredOnly ==
    /\ ctor[1].required # ctor[2].required
    /\ ctor[1] = [ctor[2] EXCEPT !.required = ctor[1].required]

\* C13: two cell definitions compare equal iff they are of the same class,
\* have the same required flag and the same parameters; the one built from the
\* string 'lower=1,upper=2' equals the one built from the keywords lower=1,
\* upper=2; two that differ only in required are not equal
C13_EqualIffSameKindRequiredParameters ==
    pc = "compared" =>
        /\ result.ret = (/\ cell_definitions[1].cls = cell_definitions[2].cls
                         /\ cell_definitions[1].required = cell_definitions[2].required
                         /\ SameParameters(cell_definitions[1], cell_definitions[2]))
        /\ (\E cls \in {"int_", "float_"} : FromStringAndFromKeywords(cls)) =>
              result.ret = TRUE
        /\ DifferInRequiredOnly => result.ret = FALSE

\* int_('lower=1,upper=2') was compared with int_(lower=1, upper=2): equal
C13_Witness ==
    /\ pc = "compared"
    /\ FromStringAndFromKeywords("int_")
    /\ result.ret = TRUE

-----------------------------------------------------------------------------
(* Properties of gs_download_to_csv (specification SpecDownload) *)

\* the text sub occurs in the text s
Contains(s, sub) ==
    \E k \in 1..(Len(s) - Len(sub) + 1) : SubSeq(s, k, k + Len(sub) - 1) = sub

\* the run ended with the error about the header rows
HeaderRowsError == pc = "raised" /\ result.exc = E_HeaderRows

\* write_rows_as_csv_to_stream has been called
Formatting == pc \in {"start", "next_row", "cells", "returned", "done"} \/ parsed > 0

\* the rows handed to the formatter so far are those after the first
\* skip_rows rows of the worksheet, in order
DiscardedExactly ==
    /\ skipped = skip_rows
    /\ skip_rows + Len(rows_pulled) <= Len(worksheet)
    /\ \A k \in 1..Len(rows_pulled) : rows_pulled[k] = worksheet[skip_rows + k]

\* nothing was formatted or written
NothingFormatted ==
    parsed = 0 /\ rows_pulled = << >> /\ stream = << >> /\ n_rows = 0

\* C20, as stated: exactly skip_rows leading rows are discarded before the
\* formatting; the error for a worksheet with fewer rows names how many rows
\* were expected and how many were found, and nothing is formatted or written
C20_ErrorNamesExpectedAndFound ==
    /\ Formatting => DiscardedExactly
    /\ HeaderRowsError =>
          /\ Len(worksheet) < skip_rows
          /\ Contains(result.msg, PyIntStr(skip_rows))
          /\ Contains(result.msg, PyIntStr(Len(worksheet)))
          /\ NothingFormatted

\* C20, amended: exactly skip_rows leading rows are discarded before the
\* formatting; an attempt that finds fewer rows is retried like every failed
\* attempt, and the error leaves the run once four failed attempts were
\* retried; its message names the rows expected and no others; nothing is
\* formatted or written, and no formatting starts on a short worksheet
C20_ErrorNamesExpectedOnly ==
    /\ Formatting => DiscardedExactly
    /\ HeaderRowsError =>
          /\ Len(worksheet) < skip_rows
          /\ result.msg = <<"E", "x", "p", "e", "c", "t", "e", "d", " ">> \o PyIntStr(skip_rows)
                              \o <<" ", "h", "e", "a", "d", "e", "r", " ", "r", "o", "w", "s", ",", " ", "b", "u", "t", " ", "n", "o", "t", " ", "a", "l", "l", " ", "w", "e", "r", "e", " ", "t", "h", "e", "r", "e", ".">>
          /\ overall_tries = 4
          /\ NothingFormatted
    /\ (pc \in {"fetch", "skip"} /\ result.kind = "none") => NothingFormatted

\* the error left the run for a worksheet of one row and skip_rows = 2
C20_Witness ==
    /\ HeaderRowsError
    /\ skip_rows = 2
    /\ Len(worksheet) = 1
    /\ overall_tries = 4
-----------------------------------------------------------------------------
(* Properties of DownloadGoogleSpreadsheet.shell_command (SpecCommand) *)

\* the command returned has the text t in it
Carries(t) == result.kind = "return" /\ Contains(result.ret, t)

\* the option of the name opt with the quoted value v
Quoted(opt, v) == opt \o <<"=", "'">> \o v \o <<"'">>

\* the value of the config function as an f-string writes it
Configured(x) == IF x = None THEN <<"N", "o", "n", "e">> ELSE x[1]

HasClientId(x) == x # None /\ Len(x[1]) > 0

CarriesServiceAccount ==
    /\ Carries(Quoted(<<"-", "-", "s", "e", "r", "v", "i", "c", "e", "-", "a", "c", "c", "o", "u", "n", "t", "-", "c", "l", "i", "e", "n", "t", "-", "i", "d">>,
                      Configured(config.gs_service_account_client_id)))
    /\ Carries(Quoted(<<"-", "-", "s", "e", "r", "v", "i", "c", "e", "-", "a", "c", "c", "o", "u", "n", "t", "-", "p", "r", "i", "v", "a", "t", "e", "-", "k", "e", "y", "-", "i", "d">>,
                      Configured(config.gs_service_account_private_key_id)))
    /\ Carries(Quoted(<<"-", "-", "s", "e", "r", "v", "i", "c", "e", "-", "a", "c", "c", "o", "u", "n", "t", "-", "p", "r", "i", "v", "a", "t", "e", "-", "k", "e", "y">>,
                      Configured(config.gs_service_account_private_key)))
    /\ Carries(Quoted(<<"-", "-", "s", "e", "r", "v", "i", "c", "e", "-", "a", "c", "c", "o", "u", "n", "t", "-", "c", "l", "i", "e", "n", "t", "-", "e", "m", "a", "i", "l">>,
                      Configured(config.gs_service_account_client_email)))
    /\ ~Carries(<<"-", "-", "u", "s", "e", "r", "-", "a", "c", "c", "o", "u", "n", "t">>)

CarriesUserAccount ==
    /\ Carries(Quoted(<<"-", "-", "u", "s", "e", "r", "-", "a", "c", "c", "o", "u", "n", "t", "-", "c", "l", "i", "e", "n", "t", "-", "i", "d">>,
                      Configured(config.gs_user_account_client_id)))
    /\ Carries(Quoted(<<"-", "-", "u", "s", "e", "r", "-", "a", "c", "c", "o", "u", "n", "t", "-", "c", "l", "i", "e", "n", "t", "-", "s", "e", "c", "r", "e", "t">>,
                      Configured(config.gs_user_account_client_secret)))
    /\ Carries(Quoted(<<"-", "-", "u", "s", "e", "r", "-", "a", "c", "c", "o", "u", "n", "t", "-", "r", "e", "f", "r", "e", "s", "h", "-", "t", "o", "k", "e", "n">>,
                      Configured(config.gs_user_account_refresh_token)))
    /\ ~Carries(<<"-", "-", "s", "e", "r", "v", "i", "c", "e", "-", "a", "c", "c", "o", "u", "n", "t">>)

\* C21: the command returned by shell_command carries the worksheet name,
\* the column definition and skip_rows; with use_flask_command it carries no
\* credential option and is always returned; without, it carries the options
\* of the service account if that has a client id, else those of the user
\* account if that has one, never both, and a RuntimeError about credentials
\* is raised iff neither has a client id
C21_CommandCarriesOneCredentialSet ==
    pc # "command" =>
        /\ result.kind = "return" =>
              /\ Carries(Quoted(<<"-", "-", "w", "o", "r", "k", "s", "h", "e", "e", "t", "-", "n", "a", "m", "e">>, worksheet_name))
              /\ Carries(Quoted(<<"-", "-", "c", "o", "l", "u", "m", "n", "s", "-", "d", "e", "f", "i", "n", "i", "t", "i", "o", "n">>, columns_definition))
              /\ Carries(<<"-", "-", "s", "k", "i", "p", "-", "r", "o", "w", "s", "=">> \o PyIntStr(skip_rows) \o <<" ">>)
        /\ use_flask_command =>
              /\ result.kind = "return"
              /\ ~Carries(<<"-", "-", "s", "e", "r", "v", "i", "c", "e", "-", "a", "c", "c", "o", "u", "n", "t">>)
              /\ ~Carries(<<"-", "-", "u", "s", "e", "r", "-", "a", "c", "c", "o", "u", "n", "t">>)
        /\ (~use_flask_command /\ HasClientId(config.gs_service_account_client_id)) =>
              CarriesServiceAccount
        /\ (/\ ~use_flask_command
            /\ ~HasClientId(config.gs_service_account_client_id)
            /\ HasClientId(config.gs_user_account_client_id)) =>
              CarriesUserAccount
        /\ (/\ ~use_flask_command
            /\ ~HasClientId(config.gs_service_account_client_id)
            /\ ~HasClientId(config.gs_user_account_client_id)) =>
              (result.kind = "raise" /\ result.exc = E_Credentials)
        /\ result.kind = "raise" => ~use_flask_command

\* with both accounts configured and without flask the command was
\* returned with the options of the service account
C21_Witness ==
    /\ pc = "returned"
    /\ ~use_flask_command
    /\ HasClientId(config.gs_service_account_client_id)
    /\ HasClientId(config.gs_user_account_client_id)
    /\ CarriesServiceAccount
-----------------------------------------------------------------------------
(* Rows with fewer fields than there are cell definitions for (Spec) *)

\* the row r has a non-empty field and fewer fields than there are
\* specifications that are not synthetic
ShortRow(r) ==
    /\ \E j \in 1..Len(r) : r[j] # << >>
    /\ Len(r) < RealUpTo(cell_definitions, Len(cell_definitions))

\* the first specification whose field the row r does not have
FirstMissing(r) ==
    CHOOSE j \in 1..Len(cell_definitions) :
        /\ cell_definitions[j].cls \notin {"add_on_", "counter_"}
        /\ RealUpTo(cell_definitions, j) = Len(r) + 1

\* the row being processed is the last one pulled
AtLastRow == Len(rows_pulled) > 0 /\ row = rows_pulled[Len(rows_pulled)]

\* C22: a row with a non-empty field and fewer fields than specifications
\* that are not synthetic is the last row of the run: the calls for it stop
\* at the latest at the first specification whose field is missing, where the
\* run raises the row-level error with the row and the missing field as the
\* cause; no value is made up for the missing field and no record is written
\* for the row
C22_ShortRowFailsTheRun ==
    /\ \A k \in 1..Len(rows_pulled) :
          (pc # "start" /\ ShortRow(rows_pulled[k])) =>
              /\ k = Len(rows_pulled)
              /\ pc \in {"cells", "raised"}
              /\ Len(stream) = Cardinality(RowsWithContent(EarlierRows))
    /\ (pc = "cells" /\ AtLastRow /\ ShortRow(row)) =>
          /\ cell_idx <= FirstMissing(row)
          /\ Len(calls) < FirstMissing(row)
          /\ \A j \in 1..Len(calls) :
                calls[j].x # None => calls[j].x = Some(row[calls[j].field])
    /\ (pc = "raised" /\ result.exc = E_BadRow /\ ShortRow(result.row)) =>
          /\ Len(calls) <= FirstMissing(result.row)
          /\ (Len(calls) = FirstMissing(result.row)) <=> (result.cause = E_Index)
    /\ (pc = "raised" /\ result.cause = E_Index) =>
          /\ result.exc = E_BadRow
          /\ ShortRow(result.row)
          /\ calls[Len(calls)].x = None

\* the run raised at the third specification of a row of one field: the
\* first took the field, the second is synthetic
C22_Witness ==
    /\ pc = "raised"
    /\ result.exc = E_BadRow
    /\ result.cause = E_Index
    /\ Len(result.row) = 1
    /\ Len(calls) = 3
    /\ calls[1].x = Some(result.row[1])
-----------------------------------------------------------------------------

(* claims about successive runs *)

\* the run before this one
Previous == earlier[Len(earlier)]

\* the number record rec carries in the column of specification j
CounterValue(rec, j) == ParseInt(rec[OutPos(cell_definitions, j)]).val

\* this run was handed the list of instances an earlier run has used
ListPassedAgain == prebuilt # None /\ earlier # << >>

\* the first record of a run with the list of an earlier run carries one more
\* than the count that run left in the instance, which is the value in the
\* last record of a run that returned
ContinuesCount(j) ==
    /\ CounterValue(stream[1], j) = prebuilt[1][j].current_count + 1
    /\ (Previous.kind = "returned" /\ Previous.last # None) =>
          CounterValue(stream[1], j) = CounterValue(Previous.last[1], j) + 1

\* the instances of a run with a str definition have just been parsed: the
\* count is the start parameter whatever ran before, and the first record
\* carries the value after it
StartsAgain(j) ==
    /\ (pc = "next_row" /\ rows_pulled = << >>) =>
          cell_definitions[j].current_count = cell_definitions[j].start[1]
    /\ stream # << >> =>
          CounterValue(stream[1], j) = cell_definitions[j].start[1] + 1

\* C23: the running count is kept in the instance and no run resets it: the
\* first record of a run that is handed the list of instances of the run
\* before it carries one more than the last value the counter had in that run,
\* while a run handed the definition as a str counts from the start parameter
\* again, whatever ran before
C23_CountLivesInTheInstance ==
    \A j \in 1..Len(cell_definitions) :
        cell_definitions[j].cls = "counter_" =>
            /\ (ListPassedAgain /\ stream # << >>) => ContinuesCount(j)
            /\ prebuilt = None => StartsAgain(j)

\* a second run with the same list has written its first record after a run
\* that wrote records and returned
C23_Witness ==
    /\ ListPassedAgain
    /\ Previous.kind = "returned"
    /\ Previous.last # None
    /\ Len(stream) = 1
    /\ \E j \in 1..Len(cell_definitions) :
          /\ cell_definitions[j].cls = "counter_"
          /\ CounterValue(stream[1], j) > cell_definitions[j].start[1] + 1
-----------------------------------------------------------------------------

(* claims about the fetch loop of gs_download_to_csv *)

\* the 'while True' loop of lines 110-150 has not been left
InLoop == pc \in {"fetch", "skip"}

\* fetch attempts begun so far: the first one and one for every retry
Attempts == api_errors + overall_tries + 1

\* the limits stated: 11 API errors and 4 other exceptions are retried
RetriesBounded ==
    /\ api_errors <= 11
    /\ overall_tries <= 4
    /\ Attempts <= 16
    /\ Formatting => (skipped = skip_rows /\ skip_rows <= Len(worksheet))

\* an exception leaves the loop: a 404 whenever it comes, another API error as
\* the 12th, another exception as the 5th of its kind
RaisedInLoop ==
    /\ result'.exc \in {E_APINotFound, E_API, E_Connection, E_HeaderRows}
    /\ result'.exc = E_APINotFound => pc = "fetch"
    /\ result'.exc = E_API => (pc = "fetch" /\ api_errors = 11)
    /\ result'.exc = E_Connection => (pc = "fetch" /\ overall_tries = 4)
    /\ result'.exc = E_HeaderRows => (pc = "skip" /\ overall_tries = 4)
    /\ UNCHANGED <<api_errors, overall_tries>>

\* what a step does with the loop and its two counts
LoopStep ==
    /\ InLoop' => InLoop
    /\ (InLoop /\ pc' = "start") =>
          /\ pc = "skip"
          /\ skipped = skip_rows
          /\ UNCHANGED <<api_errors, overall_tries, result>>
    /\ (InLoop /\ pc' = "raised") => RaisedInLoop
    /\ (InLoop /\ ~InLoop') => pc' \in {"start", "raised"}
    /\ api_errors' # api_errors =>
          /\ api_errors < 11
          /\ api_errors' = api_errors + 1
          /\ overall_tries' = overall_tries
          /\ pc = "fetch" /\ pc' = "fetch"
    /\ overall_tries' # overall_tries =>
          /\ overall_tries < 4
          /\ overall_tries' = overall_tries + 1
          /\ api_errors' = api_errors
          /\ InLoop /\ pc' = "fetch"

=============================================================================
